---- MODULE Spec2Model ----
(***************************************************************************)
(* A model of the library consolidation scripts of scriptorium             *)
(* (scripts/plan_full_transfer.py, execute_full_transfer.py,               *)
(* sanitize_full_library.py, flag_outlier_authors.py,                      *)
(* resolve_outlier_authors.py, merge_reversed_author_pairs.py).            *)
(*                                                                         *)
(* A Python str is a sequence of characters; a character is a one-letter   *)
(* TLA+ string, except the four non-ASCII characters named below.  A       *)
(* directory is a map from item names to nodes, a node is a file (with     *)
(* its content) or a directory.                                            *)
(***************************************************************************)
EXTENDS Integers, Sequences, FiniteSets, TLC

VARIABLES prog, pc, tree, tree0, inp, loc, out

vars == <<prog, pc, tree, tree0, inp, loc, out>>

(***************************************************************************)
(* Characters and the str methods the scripts use.                         *)
(***************************************************************************)
S(str) == [i \in 1..Len(str) |-> SubSeq(str, i, i)]

EAcute == "<e-acute>"
EAcuteCap == "<E-acute>"
CombAcute == "<combining-acute>"
Zwsp == "<zwsp>"
\* U+FF0C, the fullwidth comma
FwComma == "<fullwidth-comma>"

LowerLetters == S("abcdefghijklmnopqrstuvwxyz")
UpperLetters == S("ABCDEFGHIJKLMNOPQRSTUVWXYZ")
Digits == S("0123456789")

Range(s) == {s[i] : i \in 1..Len(s)}

Index(s, c) == IF c \in Range(s) THEN CHOOSE i \in 1..Len(s) : s[i] = c ELSE 0

SetMin(X) == CHOOSE a \in X : \A b \in X : a <= b
SetMax(X) == CHOOSE a \in X : \A b \in X : a >= b

\* Code points, ascending, of the characters the model draws names from.
CodeOrder == S(" \"'*,-./") \o Digits \o S(":<>?") \o UpperLetters \o S("\\_")
             \o LowerLetters \o S("|") \o <<EAcuteCap, EAcute, CombAcute, Zwsp, FwComma>>

\* ord(c), up to an order-preserving renumbering
OrdTable == [c \in Range(CodeOrder) |-> Index(CodeOrder, c)]

Ord(c) == OrdTable[c]

IsSpace(c) == c = " "
IsAsciiLower(c) == c \in Range(LowerLetters)
IsAsciiUpper(c) == c \in Range(UpperLetters)
IsDigit(c) == c \in Range(Digits)
IsUpperChar(c) == IsAsciiUpper(c) \/ c = EAcuteCap
IsLowerChar(c) == IsAsciiLower(c) \/ c = EAcute
IsAlpha(c) == IsUpperChar(c) \/ IsLowerChar(c)

\* str.upper() and str.lower() of one character
UpperTable ==
    [c \in Range(CodeOrder) |->
        IF IsAsciiLower(c) THEN UpperLetters[Index(LowerLetters, c)]
        ELSE IF c = EAcute THEN EAcuteCap ELSE c]

LowerTable ==
    [c \in Range(CodeOrder) |->
        IF IsAsciiUpper(c) THEN LowerLetters[Index(UpperLetters, c)]
        ELSE IF c = EAcuteCap THEN EAcute ELSE c]

UpperChar(c) == UpperTable[c]
LowerChar(c) == LowerTable[c]

Upper(s) == [i \in 1..Len(s) |-> UpperChar(s[i])]
Lower(s) == [i \in 1..Len(s) |-> LowerChar(s[i])]

\* s with the characters at the positions outside keep removed
Keep(s, keep) ==
    LET F[i \in 0..Len(s)] ==
            IF i = 0 THEN << >>
            ELSE IF i \in keep THEN Append(F[i - 1], s[i]) ELSE F[i - 1]
    IN F[Len(s)]

\* str.strip(chars)
StripChars(s, cs) ==
    LET idx == {i \in 1..Len(s) : s[i] \notin cs}
    IN IF idx = {} THEN << >> ELSE SubSeq(s, SetMin(idx), SetMax(idx))

\* str.strip()
Strip(s) == StripChars(s, {" "})

\* str.split(): the maximal runs of non-whitespace characters
RECURSIVE SplitWs(_)
SplitWs(s) ==
    LET start == {i \in 1..Len(s) : ~IsSpace(s[i])}
    IN IF start = {} THEN << >>
       ELSE LET b == SetMin(start)
                stop == {i \in b..Len(s) : IsSpace(s[i])}
                e == IF stop = {} THEN Len(s) + 1 ELSE SetMin(stop)
            IN <<SubSeq(s, b, e - 1)>> \o SplitWs(SubSeq(s, e, Len(s)))

\* sep.join(parts)
RECURSIVE Join(_, _)
Join(sep, parts) ==
    IF parts = << >> THEN << >>
    ELSE IF Len(parts) = 1 THEN parts[1]
    ELSE parts[1] \o sep \o Join(sep, Tail(parts))

\* s.startswith(p)
StartsWith(s, p) == Len(s) >= Len(p) /\ SubSeq(s, 1, Len(p)) = p

\* s.count(c)
Count(s, c) == Cardinality({i \in 1..Len(s) : s[i] = c})

\* s.split(",", 1), for s holding a comma
SplitComma(s) ==
    LET k == SetMin({i \in 1..Len(s) : s[i] = ","})
    IN <<SubSeq(s, 1, k - 1), SubSeq(s, k + 1, Len(s))>>

\* unicodedata.normalize("NFC", s) and ("NFKC", s).  The names of the model are
\* drawn from ASCII, the two precomposed letters, the zero-width space and the
\* fullwidth comma; all are stable under NFC, and the compatibility forms
\* replace the fullwidth comma by ",".  The combining accent only appears
\* inside canonical_key and normalize_token, between NFKD and the filter.
NFC(s) == s

NFKC(s) == [i \in 1..Len(s) |-> IF s[i] = FwComma THEN "," ELSE s[i]]

\* unicodedata.normalize("NFKD", s)
RECURSIVE NFKD(_)
NFKD(s) ==
    IF s = << >> THEN << >>
    ELSE (IF s[1] = EAcute THEN <<"e", CombAcute>>
          ELSE IF s[1] = EAcuteCap THEN <<"E", CombAcute>>
          ELSE IF s[1] = FwComma THEN <<",">>
          ELSE <<s[1]>>) \o NFKD(Tail(s))

\* re.sub(r"\s+", " ", s)
CollapseWs(s) ==
    LET t == Keep(s, {i \in 1..Len(s) : ~(IsSpace(s[i]) /\ i > 1 /\ IsSpace(s[i - 1]))})
    IN [i \in 1..Len(t) |-> IF IsSpace(t[i]) THEN " " ELSE t[i]]

\* re.sub(r"__+", "_", s)
CollapseUnderscores(s) ==
    Keep(s, {i \in 1..Len(s) : ~(s[i] = "_" /\ i > 1 /\ s[i - 1] = "_")})

ForbiddenChars == Range(S("<>:\"/\\|?*"))

\* re.sub(r'[<>:"/\\|?*]', "_", s)
ReplaceForbidden(s) == [i \in 1..Len(s) |-> IF s[i] \in ForbiddenChars THEN "_" ELSE s[i]]

safe_fs_name(name) ==
    LET n1 == Strip(Keep(NFC(name), {i \in 1..Len(NFC(name)) : NFC(name)[i] # Zwsp}))
        n2 == ReplaceForbidden(n1)
        n3 == CollapseWs(n2)
        n4 == CollapseUnderscores(n3)
        r == StripChars(n4, {" ", ".", "_"})
    IN IF r = << >> THEN S("Untitled") ELSE r

Particles == {S("de"), S("du"), S("des"), S("le"), S("la"), S("van"), S("von"),
              S("del"), S("della"), S("di")}

\* p[:1].upper() + p[1:]
CapFirst(p) == IF p = << >> THEN p ELSE <<UpperChar(p[1])>> \o Tail(p)

titlecase_firstname(firstname) ==
    LET parts == SplitWs(firstname)
    IN Join(<<" ">>, [i \in 1..Len(parts) |->
                        IF Lower(parts[i]) \in Particles THEN Lower(parts[i])
                        ELSE CapFirst(parts[i])])

\* The body the five copies of normalize_author_dir_name share; they differ in
\* the single-token rule (lowerRest) and in the name for an empty input.
NormalizeWith(author, lowerRest, emptyName) ==
    LET a == NFKC(Strip(author))
        lower == Lower(a)
        tokens == SplitWs(a)
    IN IF lower \in {S("collectif"), S("collective"), S("various"), S("various authors")}
         THEN S("Collectif")
       ELSE IF lower \in {S("anonyme"), S("anonymous"), S("unknown"), S("unknown author")}
         THEN S("Anonyme")
       ELSE IF lower \in {S("anthologie"), S("anthology")}
         THEN S("Anthologie")
       ELSE IF "," \in Range(a)
         THEN LET last == Strip(SplitComma(a)[1])
                  first == Strip(SplitComma(a)[2])
                  last_norm == Upper(last)
                  first_norm == titlecase_firstname(first)
              IN safe_fs_name(IF first_norm # << >>
                              THEN last_norm \o S(", ") \o first_norm
                              ELSE last_norm)
       ELSE IF Len(tokens) >= 2
         THEN LET n == Len(tokens)
                  compound == n >= 3 /\ Lower(tokens[n - 1]) \in Particles
                  last == IF compound THEN tokens[n - 1] \o <<" ">> \o tokens[n]
                          ELSE tokens[n]
                  first == Join(<<" ">>, SubSeq(tokens, 1, IF compound THEN n - 2 ELSE n - 1))
              IN safe_fs_name(Upper(last) \o S(", ") \o titlecase_firstname(first))
       ELSE IF tokens # << >>
         THEN safe_fs_name(<<UpperChar(tokens[1][1])>> \o
                           (IF lowerRest THEN Lower(Tail(tokens[1])) ELSE Tail(tokens[1])))
       ELSE emptyName

\* flag_outlier_authors.py (resolve_outlier_authors.py and
\* merge_reversed_author_pairs.py hold the same text)
normalize_author_dir_name(author) == NormalizeWith(author, TRUE, S("Unknown Author"))

\* plan_full_transfer.py
plan_normalize_author_dir_name(author) == NormalizeWith(author, FALSE, S("Unknown"))

\* sanitize_full_library.py
sanitize_normalize_author_dir_name(author) == NormalizeWith(author, TRUE, S("Unknown"))

canonical_key(name) ==
    LET n == NFKD(name)
        m == Lower(Keep(n, {i \in 1..Len(n) : n[i] # CombAcute}))
    IN Strip(CollapseWs(m))

SPECIAL_AUTHORS == {S("Collectif"), S("Anonyme"), S("Anthologie"), S("Unknown Author")}

OutlierPrefix == S("__OUTLIER__ ")

\* [A-ZÀ-ÖØ-Þ]
IsUpperClass(c) == IsAsciiUpper(c) \/ c = EAcuteCap

\* [a-zà-öø-ÿ'’.\-]
IsLowerClass(c) == IsAsciiLower(c) \/ c = EAcute \/ c \in {"'", ".", "-"}

\* [A-Z0-9À-ÖØ-Þ '’.\-]
IsLastClass(c) == IsAsciiUpper(c) \/ IsDigit(c) \/ c = EAcuteCap \/ c \in {" ", "'", ".", "-"}

is_conforming_author_dir(name) ==
    IF name \in SPECIAL_AUTHORS THEN TRUE
    ELSE IF StartsWith(name, OutlierPrefix) THEN FALSE
    ELSE IF "," \notin Range(name) /\ " " \notin Range(name)
      THEN /\ name # << >>
           /\ IsUpperClass(name[1])
           /\ \A i \in 2..Len(name) : IsLowerClass(name[i])
    ELSE IF Count(name, ",") # 1 THEN FALSE
    ELSE LET last == Strip(SplitComma(name)[1])
             first == Strip(SplitComma(name)[2])
         IN /\ last # << >>
            /\ first # << >>
            /\ \A i \in 1..Len(last) : IsLastClass(last[i])
            /\ IsUpperClass(first[1])

(***************************************************************************)
(* Maps (Python dicts, directory listings): functions on a finite set.     *)
(***************************************************************************)
EmptyMap == << >>

Put(m, k, v) == [x \in (DOMAIN m) \cup {k} |-> IF x = k THEN v ELSE m[x]]

Del(m, k) == [x \in (DOMAIN m) \ {k} |-> m[x]]

\* plan_full_transfer.py: the author directory of an inventory entry
choose_canonical_author(raw_author, aliases) ==
    IF raw_author = << >> THEN <<S("Unknown Author"), "fallback">>
    ELSE IF raw_author \in DOMAIN aliases THEN <<aliases[raw_author], "alias">>
    ELSE LET norm == plan_normalize_author_dir_name(raw_author)
         IN IF "," \notin Range(norm) /\ " " \notin Range(norm)
            THEN <<<<UpperChar(norm[1])>> \o Lower(Tail(norm)), "normalized">>
            ELSE <<norm, "normalized">>

(***************************************************************************)
(* The file tree.  A file's content is its sequence of bytes: st_size is   *)
(* its length, and file_sha256 is taken to be injective.                   *)
(***************************************************************************)
File(c) == [kind |-> "file", content |-> c]

Dir(entries) == [kind |-> "dir", entries |-> entries]

\* [d for d in root.iterdir() if d.is_dir()]
AuthorDirs(t) == {n \in DOMAIN t : t[n].kind = "dir"}

\* Path(root / d / f).exists()
Exists(t, d, f) == d \in AuthorDirs(t) /\ f \in DOMAIN t[d].entries

st_size(content) == Len(content)

file_sha256(content) == content

\* str(n) of a counter
RECURSIVE StrNat(_)
StrNat(n) == IF n < 10 THEN <<Digits[n + 1]>> ELSE StrNat(n \div 10) \o <<Digits[(n % 10) + 1]>>

RFindDot(name) == SetMax({i \in 1..Len(name) : name[i] = "."} \cup {0})

\* pathlib: Path.suffix and Path.stem
PathSuffix(name) ==
    LET i == RFindDot(name)
    IN IF 1 < i /\ i < Len(name) THEN SubSeq(name, i, Len(name)) ELSE << >>

PathStem(name) ==
    LET i == RFindDot(name)
    IN IF 1 < i /\ i < Len(name) THEN SubSeq(name, 1, i - 1) ELSE name

\* os.path.splitext(name): the last dot splits unless only dots precede it
splitext(name) ==
    LET i == RFindDot(name)
    IN IF i > 0 /\ \E j \in 1..(i - 1) : name[j] # "."
       THEN <<SubSeq(name, 1, i - 1), SubSeq(name, i, Len(name))>>
       ELSE <<name, << >> >>

\* f"{base}_{counter}{ext}"
Suffixed(base, counter, ext) == base \o <<"_">> \o StrNat(counter) \o ext

\* the while-True loops that count up from start to the first free name
FirstFree(taken, base, ext, start) ==
    LET c == SetMin({k \in start..(start + Cardinality(taken)) :
                       Suffixed(base, k, ext) \notin taken})
    IN Suffixed(base, c, ext)

\* ensure_unique_target with the existence test dropped: the planned name is
\* returned whether or not it is taken
ensure_unique_target_taken(taken, name) == name

\* execute_full_transfer.py; taken holds the names in target.parent
ensure_unique_target(taken, name) ==
    IF name \notin taken THEN name
    ELSE FirstFree(taken, PathStem(name), PathSuffix(name), 2)

\* dst.parent.mkdir(parents=True, exist_ok=True); shutil.copy2(src, dst)
CopyTo(t, d, f, content) ==
    LET entries == IF d \in DOMAIN t THEN t[d].entries ELSE EmptyMap
    IN Put(t, d, Dir(Put(entries, f, File(content))))

copy_with_collision_handling(t, src, dst, compute_hash) ==
    LET d == dst[1]
        f == dst[2]
    IN IF Exists(t, d, f)
       THEN LET old == t[d].entries[f].content
            IN IF compute_hash /\ file_sha256(src) = file_sha256(old)
                 THEN [tree |-> t, final_dst |-> dst, status |-> "skipped_same_hash"]
               ELSE IF ~compute_hash /\ st_size(src) = st_size(old)
                 THEN [tree |-> t, final_dst |-> dst, status |-> "skipped_same_size"]
               ELSE LET g == ensure_unique_target(DOMAIN t[d].entries, f)
                    IN [tree |-> CopyTo(t, d, g, src), final_dst |-> <<d, g>>,
                        status |-> "copied"]
       ELSE [tree |-> CopyTo(t, d, f, src), final_dst |-> dst, status |-> "copied"]

(***************************************************************************)
(* execute_full_transfer.py: execute(), one manifest line per step.        *)
(***************************************************************************)
MaxManifest == 2
MaxRuns == 2

\* The raw files of a run: source path -> content; "raw/gone.epub" has vanished.
ExecSources == ("raw/a.epub" :> <<0>>) @@ ("raw/b.epub" :> <<1>>) @@ ("raw/c.epub" :> <<0, 0>>)

ExecSourcePaths == (DOMAIN ExecSources) \cup {"raw/gone.epub"}

ExecTargets == {<<S("DOE, Jane"), S("Book.epub")>>, <<S("Solo"), S("Book.epub")>>}

ExecTrees ==
    { EmptyMap,
      S("DOE, Jane") :> Dir(S("Book.epub") :> File(<<1>>)),
      S("DOE, Jane") :> Dir((S("Book.epub") :> File(<<1>>)) @@ (S("Book_2.epub") :> File(<<0, 0>>))) }

\* a manifest line without a second column: len(parts) < 2 at line 95
ShortLine == [src |-> "raw/a.epub", dst |-> << >>]

ManifestLines == [src : ExecSourcePaths, dst : ExecTargets] \cup {ShortLine}

\* lines 94-96: the line has a source and a target column
WellFormed(e) == e.dst # << >>

Manifests == UNION {[1..n -> ManifestLines] : n \in 1..MaxManifest}

\* the sources that exist and cannot be opened for reading
Unreadable == {{}, {"raw/a.epub"}}

\* lines 102-103 with the write left out
ExecMissingSilent(log, src) == log

\* lines 102-103: log_handle.write(f"MISSING\t{src}\n")
ExecMissing(log, src) == Append(log, <<"MISSING", src>>)

\* lines 54-69 for a source that cannot be read: file_sha256(src) raises at
\* line 57 and is caught at line 64, src.stat() at line 62 does not raise,
\* shutil.copy2 at line 69 raises and nothing catches it
CopyRaises(t, src, dst, compute_hash) ==
    compute_hash \/ copy_with_collision_handling(t, src, dst, compute_hash).status = "copied"

\* line 68: dst.parent.mkdir(parents=True, exist_ok=True)
MkdirParent(t, dst) == IF dst[1] \in DOMAIN t THEN t ELSE Put(t, dst[1], Dir(EmptyMap))

InitExec ==
    /\ prog = "execute"
    /\ pc = "exec_loop"
    /\ tree \in ExecTrees
    /\ tree0 = tree
    /\ \E m \in Manifests, h \in BOOLEAN :
          \E u \in Unreadable :
             inp = [manifest |-> m, sources |-> ExecSources, verify_hash |-> h,
                    unreadable |-> u]
    /\ loc = [i |-> 1, copied |-> 0, skipped |-> 0, created_authors |-> 0,
              seen_authors |-> {}, run |-> 1]
    /\ out = [log |-> << >>]

\* one pass of "for line in f": lines 90-116; an exception of
\* copy_with_collision_handling leaves execute()
ExecEntry ==
    /\ prog = "execute"
    /\ pc = "exec_loop"
    /\ loc.i <= Len(inp.manifest)
    /\ LET e == inp.manifest[loc.i]
       IN IF ~WellFormed(e)
          THEN /\ loc' = [loc EXCEPT !.i = @ + 1]
               /\ UNCHANGED <<pc, tree, out>>
          ELSE IF e.src \notin DOMAIN inp.sources
          THEN /\ out' = [out EXCEPT !.log = ExecMissing(@, e.src)]
               /\ loc' = [loc EXCEPT !.i = @ + 1]
               /\ UNCHANGED <<pc, tree>>
          ELSE LET fresh == e.dst[1] \notin loc.seen_authors /\ e.dst[1] \notin DOMAIN tree
                   r == copy_with_collision_handling(tree, inp.sources[e.src], e.dst,
                                                     inp.verify_hash)
                   skip == r.status \in {"skipped_same_hash", "skipped_same_size"}
               IN IF /\ e.src \in inp.unreadable
                     /\ CopyRaises(tree, inp.sources[e.src], e.dst, inp.verify_hash)
                  THEN /\ tree' = MkdirParent(tree, e.dst)
                       /\ loc' = [loc EXCEPT
                                     !.created_authors = IF fresh THEN @ + 1 ELSE @,
                                     !.seen_authors = IF fresh THEN @ \cup {e.dst[1]} ELSE @]
                       /\ pc' = "crashed"
                       /\ UNCHANGED out
                  ELSE /\ tree' = r.tree
                       /\ loc' = [loc EXCEPT
                                     !.i = @ + 1,
                                     !.created_authors = IF fresh THEN @ + 1 ELSE @,
                                     !.seen_authors = IF fresh THEN @ \cup {e.dst[1]} ELSE @,
                                     !.skipped = IF skip THEN @ + 1 ELSE @,
                                     !.copied = IF skip THEN @ ELSE @ + 1]
                       /\ out' = [out EXCEPT !.log = Append(@, <<r.status, e.src, r.final_dst>>)]
                       /\ UNCHANGED pc
    /\ UNCHANGED <<prog, tree0, inp>>

\* lines 118-122
ExecSummary ==
    /\ prog = "execute"
    /\ pc = "exec_loop"
    /\ loc.i > Len(inp.manifest)
    /\ out' = [out EXCEPT !.log = Append(@, <<"SUMMARY", loc.copied, loc.skipped,
                                               loc.created_authors>>)]
    /\ pc' = "done"
    /\ UNCHANGED <<prog, tree, tree0, inp, loc>>

\* the script is run again with the same manifest (the log file is appended to)
ExecRerun ==
    /\ prog = "execute"
    /\ pc = "done"
    /\ loc.run < MaxRuns
    /\ pc' = "exec_loop"
    /\ tree0' = tree
    /\ loc' = [i |-> 1, copied |-> 0, skipped |-> 0, created_authors |-> 0,
               seen_authors |-> {}, run |-> loc.run + 1]
    /\ UNCHANGED <<prog, tree, inp, out>>

NextExec == ExecEntry \/ ExecSummary \/ ExecRerun

SpecExec == InitExec /\ [][NextExec]_vars

(***************************************************************************)
(* Claims about the Executor.                                              *)
(***************************************************************************)
ExecDone == prog = "execute" /\ pc = "done"

\* the step is one pass of the manifest loop
ExecEntryStep == prog = "execute" /\ pc = "exec_loop" /\ pc' = "exec_loop" /\ loc'.i = loc.i + 1

\* the content of the files of author directory d
ContentsIn(t, d) ==
    IF d \in AuthorDirs(t)
    THEN {t[d].entries[f].content : f \in {g \in DOMAIN t[d].entries : t[d].entries[g].kind = "file"}}
    ELSE {}

\* C6 (as claimed): a second run of the Executor with the same manifest on the
\* tree the first run has populated copies nothing and leaves the tree as it was.
C6_RerunCreatesNothing ==
    (ExecDone /\ loc.run = 2) => (loc.copied = 0 /\ tree = tree0)

\* C7 (as claimed): when the Executor is done, the content of every manifest
\* entry whose source exists is in the author directory of its target, with
\* or without hash verification.
C7_NoDataLost ==
    ExecDone =>
        \A i \in 1..Len(inp.manifest) :
            LET e == inp.manifest[i]
            IN (WellFormed(e) /\ e.src \in DOMAIN inp.sources) =>
                  inp.sources[e.src] \in ContentsIn(tree, e.dst[1])

\* the collision policy of one manifest step, given when two files count as the same
CollisionPolicyStep(Same(_, _)) ==
    LET e == inp.manifest[loc.i]
        d == e.dst[1]
        f == e.dst[2]
    IN (ExecEntryStep /\ WellFormed(e) /\ e.src \in DOMAIN inp.sources /\ Exists(tree, d, f)) =>
          LET src == inp.sources[e.src]
              old == tree[d].entries[f].content
              names == DOMAIN tree[d].entries
              last == out'.log[Len(out'.log)]
          IN IF Same(src, old)
             THEN /\ tree' = tree
                  /\ last[1] \in {"skipped_same_hash", "skipped_same_size"}
                  /\ loc'.skipped = loc.skipped + 1
                  /\ loc'.copied = loc.copied
             ELSE \E k \in 2..(Cardinality(names) + 2) :
                     LET g == Suffixed(PathStem(f), k, PathSuffix(f))
                     IN /\ g \notin names
                        /\ \A j \in 2..(k - 1) : Suffixed(PathStem(f), j, PathSuffix(f)) \in names
                        /\ tree' = Put(tree, d, Dir(Put(tree[d].entries, g, File(src))))
                        /\ last = <<"copied", e.src, <<d, g>> >>
                        /\ loc'.copied = loc.copied + 1

SameAsClaimed(src, old) == (inp.verify_hash /\ src = old) \/ st_size(src) = st_size(old)

SameByMode(src, old) == IF inp.verify_hash THEN src = old ELSE st_size(src) = st_size(old)

\* C10 (as claimed): an existing target is skipped when hashing is on and the
\* hashes match, or when the sizes match; otherwise the source goes to the
\* first free suffixed name and the existing target is untouched.
C10_PolicyAsClaimed == [][CollisionPolicyStep(SameAsClaimed)]_vars

\* C10 (amended): an existing target is skipped when hashing is on and the
\* hashes match, or when hashing is off and the sizes match; otherwise the
\* source goes to the first free suffixed name (_2, _3, ...) and the existing
\* target is untouched.
C10_PolicyByMode == [][CollisionPolicyStep(SameByMode)]_vars

\* a first run has skipped one entry and has written another under a suffixed name
C10_Witness ==
    /\ prog = "execute"
    /\ loc.run = 1
    /\ \E i \in 1..Len(out.log) : out.log[i][1] \in {"skipped_same_hash", "skipped_same_size"}
    /\ \E i \in 1..Len(out.log) :
          /\ out.log[i][1] = "copied"
          /\ \E j \in 1..Len(inp.manifest) :
                /\ inp.manifest[j].src = out.log[i][2]
                /\ WellFormed(inp.manifest[j])
                /\ out.log[i][3][1] = inp.manifest[j].dst[1]
                /\ out.log[i][3][2] # inp.manifest[j].dst[2]

\* the number of well-formed lines of the manifest
NumWellFormed == Cardinality({i \in 1..Len(inp.manifest) : WellFormed(inp.manifest[i])})

\* C11 (as claimed): whenever the Executor has stopped, every manifest line
\* has been processed, the log holds one line for every well-formed entry of
\* every run, a failed one included, and its last line is the SUMMARY line.
C11_FailureAbortsOnlyEntry ==
    (prog = "execute" /\ pc # "exec_loop") =>
        /\ loc.i = Len(inp.manifest) + 1
        /\ Len(out.log) = loc.run * (NumWellFormed + 1)
        /\ out.log[Len(out.log)][1] = "SUMMARY"

\* C12: a step for a well-formed entry whose source does not exist appends the
\* line MISSING <source> to the log, leaves the target tree as it is and moves
\* on to the next entry; the step that ends a run appends a SUMMARY line
\* with the counters, after one log line for every well-formed entry of the
\* run, and copied + skipped + the MISSING lines of the run is the number of
\* well-formed manifest lines.
C12_MissingLoggedAndCounted ==
    [][(prog = "execute" /\ pc = "exec_loop") =>
         IF loc.i <= Len(inp.manifest)
         THEN LET e == inp.manifest[loc.i]
              IN (WellFormed(e) /\ e.src \notin DOMAIN inp.sources) =>
                    /\ out'.log = Append(out.log, <<"MISSING", e.src>>)
                    /\ tree' = tree
                    /\ loc'.i = loc.i + 1
                    /\ pc' = "exec_loop"
         ELSE LET n == Len(out'.log)
                  first == n - NumWellFormed
                  missing == Cardinality({i \in first..(n - 1) : out'.log[i][1] = "MISSING"})
              IN /\ pc' = "done"
                 /\ n = loc.run * (NumWellFormed + 1)
                 /\ out'.log[n] = <<"SUMMARY", loc.copied, loc.skipped, loc.created_authors>>
                 /\ \A i \in first..(n - 1) : out'.log[i][1] # "SUMMARY"
                 /\ loc.copied + loc.skipped + missing = NumWellFormed]_vars

\* a run is done in which an entry with a vanished source was logged as
\* MISSING and the entry after it was copied
C12_Witness ==
    /\ ExecDone
    /\ \E i \in 1..(Len(out.log) - 1) :
          /\ out.log[i][1] = "MISSING"
          /\ out.log[i + 1][1] = "copied"

(***************************************************************************)
(* The Canonicalizer applied to a raw author string, and again to its own  *)
(* output.                                                                 *)
(***************************************************************************)
MaxRawLen == 3

RawAlphabet == {"a", "B", ",", " ", ":"}

RawPool == {S("Smith,"), S("unknown,"), S("Isaac Asimov"), S("Asimov, Isaac"),
            S("Jean de la Fontaine"), S("various authors"), S("Anthology"),
            S("XYZ Collective Works 2019"), S("smith"), S("Verne, jules"),
            S("Jos") \o <<EAcute>> \o S(" Smith")}

RawAuthors == UNION {[1..n -> RawAlphabet] : n \in 0..MaxRawLen} \cup RawPool

\* the copy of normalize_author_dir_name in the named script
Canonicalizer(script, author) ==
    IF script = "plan_full_transfer" THEN plan_normalize_author_dir_name(author)
    ELSE normalize_author_dir_name(author)

InitCanon ==
    /\ prog = "canonicalize"
    /\ pc = "apply"
    /\ tree = EmptyMap
    /\ tree0 = EmptyMap
    /\ \E x \in RawAuthors, s \in {"flag_outlier_authors", "plan_full_transfer"} :
          inp = [x |-> x, script |-> s]
    /\ loc = << >>
    /\ out = << >>

\* out[1] = canonicalize(x), out[2] = canonicalize(canonicalize(x))
Canonicalize ==
    /\ prog = "canonicalize"
    /\ Len(out) < 2
    /\ out' = Append(out, Canonicalizer(inp.script, IF out = << >> THEN inp.x ELSE out[Len(out)]))
    /\ UNCHANGED <<prog, pc, tree, tree0, inp, loc>>

NextCanon == Canonicalize

SpecCanon == InitCanon /\ [][NextCanon]_vars

\* C1 (as claimed): canonicalize(canonicalize(x)) = canonicalize(x) for every
\* raw author string x, in flag_outlier_authors.py and plan_full_transfer.py.
C1_Idempotent ==
    (prog = "canonicalize" /\ Len(out) = 2) => out[2] = out[1]

(***************************************************************************)
(* flag_outlier_authors.py: process_authors(), one directory per step.     *)
(***************************************************************************)
\* a < b or a = b, as Python compares str
RECURSIVE StrLE(_, _)
StrLE(a, b) ==
    IF a = << >> THEN TRUE
    ELSE IF b = << >> THEN FALSE
    ELSE IF a[1] = b[1] THEN StrLE(Tail(a), Tail(b))
    ELSE Ord(a[1]) < Ord(b[1])

\* the names of todo that sorted(..., key=lambda p: p.name.lower()) may yield
\* first: the sort is stable and iterdir() lists in no particular order
FirstByLower(todo) == {d \in todo : \A e \in todo : StrLE(Lower(d), Lower(e))}

\* src_dir.rename(dest_dir), dest_dir not existing
RenameDir(t, src, dest) == Put(Del(t, src), dest, t[src])

\* flag_outlier_authors.py; taken holds the names in path.parent
ensure_unique_dir(taken, name) ==
    IF name \notin taken THEN name ELSE FirstFree(taken, name, << >>, 2)

\* The loop of lines 125-139 over the items of src in the order given.
RECURSIVE MergeItems(_, _, _)
MergeItems(dest, src, order) ==
    IF order = << >> THEN dest
    ELSE LET item == order[1]
             target == IF item \in DOMAIN dest
                       THEN FirstFree(DOMAIN dest, splitext(item)[1], splitext(item)[2], 1)
                       ELSE item
         IN MergeItems(Put(dest, target, src[item]), src, Tail(order))

\* some listing of the names of a directory
RECURSIVE SomeOrder(_)
SomeOrder(names) ==
    IF names = {} THEN << >>
    ELSE LET n == CHOOSE x \in names : TRUE IN <<n>> \o SomeOrder(names \ {n})

\* merge_or_rename(src_dir, dest_dir).  On a case-sensitive file system without
\* links, dest_dir.resolve() = src_dir.resolve() only if the two are equal, so
\* line 120 always yields a name that does not exist and lines 124-144 are not
\* reached.
merge_or_rename(t, src, dest) ==
    IF src = dest THEN [tree |-> t, dest |-> dest, action |-> "noop"]
    ELSE LET dest_dir == IF dest \in DOMAIN t /\ dest # src
                         THEN ensure_unique_dir(DOMAIN t, dest) ELSE dest
         IN IF dest_dir \notin DOMAIN t
            THEN [tree |-> RenameDir(t, src, dest_dir), dest |-> dest_dir, action |-> "renamed"]
            ELSE [tree |-> Del(Put(t, dest_dir,
                                   Dir(MergeItems(t[dest_dir].entries, t[src].entries,
                                                  SomeOrder(DOMAIN t[src].entries)))), src),
                  dest |-> dest_dir, action |-> "merged"]

MaxDirs == 3

FlagNames == {S("Smith"), S("smith"), S("SMITH, John"), S("john smith"), S("Smith, John"),
              S("a, b, c"), S("a, b, c."), S("__OUTLIER__ a, b, c"), S("Collectif"),
              S("abc123"), S("Verne")}

\* the trees with the author directories names, each holding one book
OneBookTrees(names) ==
    {[d \in ds |-> Dir(S("Book.epub") :> File(<<Cardinality({e \in ds : StrLE(e, d)})>>))] :
        ds \in {x \in SUBSET names : Cardinality(x) \in 1..MaxDirs}}

InitFlag ==
    /\ prog = "flag"
    /\ pc = "flag_loop"
    /\ tree \in OneBookTrees(FlagNames)
    /\ tree0 = tree
    /\ \E dry \in BOOLEAN : inp = [dry_run |-> dry]
    /\ loc = [todo |-> AuthorDirs(tree), fixed |-> 0, flagged |-> 0, conforming |-> 0]
    /\ out = [lines |-> << >>]

\* one pass of the loop of lines 154-178
FlagDir ==
    /\ prog = "flag"
    /\ pc = "flag_loop"
    /\ \E name \in FirstByLower(loc.todo) :
          LET canon == normalize_author_dir_name(name)
              out_name == OutlierPrefix \o safe_fs_name(name)
          IN IF is_conforming_author_dir(name)
             THEN /\ loc' = [loc EXCEPT !.todo = @ \ {name}, !.conforming = @ + 1]
                  /\ out' = [out EXCEPT !.lines = Append(@, <<"OK", name>>)]
                  /\ UNCHANGED tree
             ELSE IF is_conforming_author_dir(canon)
             THEN /\ loc' = [loc EXCEPT !.todo = @ \ {name}, !.fixed = @ + 1]
                  /\ out' = [out EXCEPT !.lines = Append(@, <<"FIX", name, canon>>)]
                  /\ tree' = IF inp.dry_run THEN tree
                             ELSE merge_or_rename(tree, name, canon).tree
             ELSE /\ loc' = [loc EXCEPT !.todo = @ \ {name}, !.flagged = @ + 1]
                  /\ out' = [out EXCEPT !.lines = Append(@, <<"FLAG", name, out_name>>)]
                  /\ tree' = IF inp.dry_run THEN tree
                             ELSE RenameDir(tree, name, ensure_unique_dir(DOMAIN tree, out_name))
    /\ UNCHANGED <<prog, pc, tree0, inp>>

\* lines 180-182: the report is written and the counts returned
FlagReport ==
    /\ prog = "flag"
    /\ pc = "flag_loop"
    /\ loc.todo = {}
    /\ pc' = "done"
    /\ UNCHANGED <<prog, tree, tree0, inp, loc, out>>

NextFlag == FlagDir \/ FlagReport

SpecFlag == InitFlag /\ [][NextFlag]_vars

FlagDone == prog = "flag" /\ pc = "done"

\* C4 (as claimed): after a full flag pass that is no dry run, a directory at
\* the library root carries the outlier prefix exactly if its name fails
\* is_conforming_author_dir, the directories renamed by the FIX branch included.
C4_OutlierInvariant ==
    (FlagDone /\ ~inp.dry_run) =>
        \A d \in AuthorDirs(tree) :
            /\ ~is_conforming_author_dir(d) => StartsWith(d, OutlierPrefix)
            /\ StartsWith(d, OutlierPrefix) => ~is_conforming_author_dir(d)

(***************************************************************************)
(* Starting trees: author directories drawn from a set of names, the       *)
(* content of every file different from every other.                       *)
(***************************************************************************)
\* what the k-th directory may hold: nothing, a book, a book and a cover
Shelves(k) ==
    { EmptyMap,
      S("Book.epub") :> File(<<k>>),
      (S("Book.epub") :> File(<<k>>)) @@ (S("cover.jpg") :> File(<<k, 0>>)) }

\* sorted(names)
RECURSIVE SortByName(_)
SortByName(names) ==
    IF names = {} THEN << >>
    ELSE LET n == CHOOSE x \in names : \A y \in names : StrLE(x, y)
         IN <<n>> \o SortByName(names \ {n})

\* the trees whose k-th directory, by name, holds one of shelves[k]
RECURSIVE ShelvedTrees(_, _)
ShelvedTrees(sorted, shelves) ==
    IF sorted = << >> THEN {EmptyMap}
    ELSE {Put(t, sorted[Len(sorted)], Dir(s)) :
            t \in ShelvedTrees(SubSeq(sorted, 1, Len(sorted) - 1), shelves),
            s \in shelves[Len(sorted)]}

LibraryTrees(names, lo, shelves) ==
    UNION { ShelvedTrees(SortByName(ds), shelves) :
            ds \in {x \in SUBSET names : Cardinality(x) \in lo..MaxDirs} }

\* the listings of a set of names: every order iterdir() may list them in
Orders(names) ==
    {o \in [1..Cardinality(names) -> names] : \A i, j \in 1..Cardinality(names) : o[i] = o[j] => i = j}

(***************************************************************************)
(* sanitize_full_library.py: merge_duplicate_authors() then                *)
(* sanitize_filenames(), one group, one directory per step.                *)
(***************************************************************************)
BOOK_EXTENSIONS == {S(".epub")}

\* The loops of lines 120-133 and 153-164: every item of src, in the order
\* given, is moved into dest under a free name.
RECURSIVE MoveItemsSplitext(_, _, _)
MoveItemsSplitext(dest, src, order) ==
    IF order = << >> THEN dest
    ELSE LET item == order[1]
             target == IF item \in DOMAIN dest
                       THEN FirstFree(DOMAIN dest, splitext(item)[1], splitext(item)[2], 1)
                       ELSE item
         IN MoveItemsSplitext(Put(dest, target, src[item]), src, Tail(order))

\* all items of directory d moved into directory dest, then d.rmdir()
MergeDirInto(t, d, dest, order) ==
    Del(Put(t, dest, Dir(MoveItemsSplitext(t[dest].entries, t[d].entries, order))), d)

\* lines 176-199 on the listing of one author directory, in the order given
RECURSIVE SanitizeFiles(_, _)
SanitizeFiles(entries, order) ==
    IF order = << >> THEN entries
    ELSE LET f == order[1]
             safe_name == safe_fs_name(f)
             target == IF safe_name \in DOMAIN entries
                       THEN FirstFree(DOMAIN entries, splitext(safe_name)[1],
                                      splitext(safe_name)[2], 1)
                       ELSE safe_name
         IN IF entries[f].kind # "file" THEN SanitizeFiles(entries, Tail(order))
            ELSE IF Lower(PathSuffix(f)) \notin BOOK_EXTENSIONS
              THEN SanitizeFiles(Del(entries, f), Tail(order))
            ELSE IF safe_name # f
              THEN SanitizeFiles(Put(Del(entries, f), target, entries[f]), Tail(order))
            ELSE SanitizeFiles(entries, Tail(order))

SanNames == {S("john smith"), S("SMITH, JOHN"), S("SMITH, John"),
             S("SMITH, Jos") \o <<EAcute>>, S("jose smith"), S("__OUTLIER__ x"), S("Verne")}

InitSanitize ==
    /\ prog = "sanitize"
    /\ pc = "san_groups"
    /\ tree \in LibraryTrees(SanNames, 1, [k \in 1..MaxDirs |-> Shelves(k)])
    /\ tree0 = tree
    /\ inp = << >>
    /\ loc = [keys |-> {canonical_key(d) : d \in AuthorDirs(tree)},
              authors |-> AuthorDirs(tree), canonical_name |-> << >>, dirs |-> << >>,
              todo |-> {}, moved |-> 0, fixes |-> 0]
    /\ out = << >>

\* lines 108-114: the next group of directories with one canonical key; the
\* listing order decides the order of the groups and which directory is dirs[0]
SanGroup ==
    /\ prog = "sanitize"
    /\ pc = "san_groups"
    /\ \E key \in loc.keys :
          LET dirs == {d \in loc.authors : canonical_key(d) = key}
          IN IF Cardinality(dirs) <= 1
             THEN /\ loc' = [loc EXCEPT !.keys = @ \ {key}]
                  /\ UNCHANGED <<pc, tree>>
             ELSE \E first \in dirs :
                     LET canonical_name == sanitize_normalize_author_dir_name(first)
                     IN /\ tree' = IF canonical_name \in DOMAIN tree THEN tree
                                   ELSE Put(tree, canonical_name, Dir(EmptyMap))
                        /\ loc' = [loc EXCEPT !.keys = @ \ {key},
                                              !.canonical_name = canonical_name,
                                              !.dirs = SortByName(dirs)]
                        /\ pc' = "san_merge"
    /\ UNCHANGED <<prog, tree0, inp, out>>

\* lines 116-138: the next directory of the group
SanMergeDir ==
    /\ prog = "sanitize"
    /\ pc = "san_merge"
    /\ LET d == Head(loc.dirs)
           rest == Tail(loc.dirs)
       IN /\ IF d = loc.canonical_name
             THEN /\ tree' = tree
                  /\ loc' = [loc EXCEPT !.dirs = rest]
             ELSE \E order \in Orders(DOMAIN tree[d].entries) :
                     /\ tree' = MergeDirInto(tree, d, loc.canonical_name, order)
                     /\ loc' = [loc EXCEPT !.dirs = rest, !.moved = @ + Len(order)]
          /\ pc' = IF rest = << >> THEN "san_groups" ELSE "san_merge"
    /\ UNCHANGED <<prog, tree0, inp, out>>

\* line 139 and line 147: merge_duplicate_authors returns, sanitize_filenames lists the root
SanGroupsDone ==
    /\ prog = "sanitize"
    /\ pc = "san_groups"
    /\ loc.keys = {}
    /\ loc' = [loc EXCEPT !.todo = AuthorDirs(tree)]
    /\ pc' = "san_names"
    /\ UNCHANGED <<prog, tree, tree0, inp, out>>

\* lines 147-172: the next author directory is renamed to, or merged into, its normalized name
SanName ==
    /\ prog = "sanitize"
    /\ pc = "san_names"
    /\ \E d \in loc.todo :
          LET normalized == sanitize_normalize_author_dir_name(d)
          IN IF normalized = d
             THEN /\ loc' = [loc EXCEPT !.todo = @ \ {d}]
                  /\ UNCHANGED tree
             ELSE /\ loc' = [loc EXCEPT !.todo = @ \ {d}, !.fixes = @ + 1]
                  /\ IF normalized \in DOMAIN tree
                     THEN \E order \in Orders(DOMAIN tree[d].entries) :
                             tree' = MergeDirInto(tree, d, normalized, order)
                     ELSE tree' = RenameDir(tree, d, normalized)
    /\ UNCHANGED <<prog, pc, tree0, inp, out>>

\* line 175: the root is listed again for the file pass
SanNamesDone ==
    /\ prog = "sanitize"
    /\ pc = "san_names"
    /\ loc.todo = {}
    /\ loc' = [loc EXCEPT !.todo = AuthorDirs(tree)]
    /\ pc' = "san_files"
    /\ UNCHANGED <<prog, tree, tree0, inp, out>>

\* lines 175-199: the files of the next author directory
SanFiles ==
    /\ prog = "sanitize"
    /\ pc = "san_files"
    /\ \E d \in loc.todo :
          \E order \in Orders(DOMAIN tree[d].entries) :
             LET entries == SanitizeFiles(tree[d].entries, order)
                 renamed == (DOMAIN entries) \ (DOMAIN tree[d].entries)
             IN /\ tree' = Put(tree, d, Dir(entries))
                /\ loc' = [loc EXCEPT !.todo = @ \ {d}, !.fixes = @ + Cardinality(renamed)]
    /\ UNCHANGED <<prog, pc, tree0, inp, out>>

\* line 201
SanDone ==
    /\ prog = "sanitize"
    /\ pc = "san_files"
    /\ loc.todo = {}
    /\ pc' = "done"
    /\ UNCHANGED <<prog, tree, tree0, inp, loc, out>>

NextSanitize ==
    SanGroup \/ SanMergeDir \/ SanGroupsDone \/ SanName \/ SanNamesDone \/ SanFiles \/ SanDone

SpecSanitize == InitSanitize /\ [][NextSanitize]_vars

SanitizeDone == prog = "sanitize" /\ pc = "done"

\* C5 (as claimed): when merge_duplicate_authors and sanitize_filenames have
\* run, no two author directories without the outlier prefix have the same
\* canonical key.
C5_UniqueKeys ==
    SanitizeDone =>
        \A d, e \in AuthorDirs(tree) :
            (d # e /\ ~StartsWith(d, OutlierPrefix) /\ ~StartsWith(e, OutlierPrefix))
                => canonical_key(d) # canonical_key(e)

(***************************************************************************)
(* The metadata reader.  EpubParser.get_book_info() is a function of the   *)
(* file's content: it raises, or it returns the list of author strings.    *)
(* inp.meta gives its result for the first book of a directory (main) and  *)
(* for any other book (other).                                             *)
(***************************************************************************)
ReadFails == [raises |-> TRUE, authors |-> << >>]

Reads(authors) == [raises |-> FALSE, authors |-> authors]

get_book_info(content) == IF Len(content) = 1 THEN inp.meta.main ELSE inp.meta.other

\* the try-block with a failed read counted as one author of unknown name
AuthorsOfCountingFailures(content) ==
    IF get_book_info(content).raises THEN <<S("unknown")>> ELSE get_book_info(content).authors

\* the authors the try-block yields for one file: none when the read raises
AuthorsOf(content) ==
    IF get_book_info(content).raises THEN << >> ELSE get_book_info(content).authors

EndsWith(s, p) == Len(s) >= Len(p) /\ SubSeq(s, Len(s) - Len(p) + 1, Len(s)) = p

\* the names d.glob("*.epub") yields
GlobEpub(t, d) ==
    IF d \in DOMAIN t THEN {n \in DOMAIN t[d].entries : EndsWith(n, S(".epub"))} ELSE {}

RECURSIVE Flatten(_)
Flatten(seqs) == IF seqs = << >> THEN << >> ELSE seqs[1] \o Flatten(Tail(seqs))

\* Counter.most_common(1)[0][0] of the votes cast in the order given: the
\* highest count, the key inserted first among equals
most_common(cast) ==
    LET count(x) == Cardinality({i \in 1..Len(cast) : cast[i] = x})
        best == SetMax({count(cast[i]) : i \in 1..Len(cast)})
    IN cast[SetMin({i \in 1..Len(cast) : count(cast[i]) = best})]

(***************************************************************************)
(* merge_reversed_author_pairs.py: main(), one item of a directory per     *)
(* step.                                                                   *)
(***************************************************************************)
merge_normalize_author_dir_name(author) == NormalizeWith(author, TRUE, S("Unknown Author"))

normalize_token(s) ==
    LET n == NFKD(s)
        m == Strip(Lower(Keep(n, {i \in 1..Len(n) : n[i] # CombAcute})))
    IN CollapseWs(m)

NoPair == << >>

split_author_dir(name) ==
    IF name \in SPECIAL_AUTHORS THEN NoPair
    ELSE IF "," \notin Range(name) THEN NoPair
    ELSE LET left == Strip(SplitComma(name)[1])
             right == Strip(SplitComma(name)[2])
         IN IF left = << >> \/ right = << >> THEN NoPair
            ELSE <<normalize_token(left), normalize_token(right)>>

\* find_reversed_pairs for a listing in which key_to_dir[k] is the first
\* directory with key k
ReversedPairs(key_to_dir) ==
    { LET dir_a == key_to_dir[k]
          dir_b == key_to_dir[<<k[2], k[1]>>]
      IN IF StrLE(dir_a, dir_b) THEN <<dir_a, dir_b>> ELSE <<dir_b, dir_a>> :
      k \in {x \in DOMAIN key_to_dir : <<x[2], x[1]>> \in DOMAIN key_to_dir} }

\* <<number of uppercase letters, number of letters>>
uppercase_ratio(s) ==
    <<Cardinality({i \in 1..Len(s) : IsAlpha(s[i]) /\ IsUpperChar(s[i])}),
      Cardinality({i \in 1..Len(s) : IsAlpha(s[i])})>>

\* x > y for two ratios, 0/0 standing for 0.0
RatioGT(x, y) ==
    LET xd == IF x[2] = 0 THEN 1 ELSE x[2]
        yd == IF y[2] = 0 THEN 1 ELSE y[2]
    IN x[1] * yd > y[1] * xd

\* order_a and order_b are the orders in which glob lists the two directories
choose_canonical_by_metadata(t, dir_a, dir_b, order_a, order_b) ==
    LET authors(d, order) == Flatten([i \in 1..Len(order) |->
                                        AuthorsOf(t[d].entries[order[i]].content)])
        raw == authors(dir_a, order_a) \o authors(dir_b, order_b)
        votes == [i \in 1..Len(raw) |-> merge_normalize_author_dir_name(raw[i])]
        left_a == Strip(SplitComma(dir_a)[1])
        left_b == Strip(SplitComma(dir_b)[1])
        score_a == uppercase_ratio(left_a)
        score_b == uppercase_ratio(left_b)
        count_a == Cardinality(GlobEpub(t, dir_a))
        count_b == Cardinality(GlobEpub(t, dir_b))
    IN IF votes # << >> THEN most_common(votes)
       ELSE IF RatioGT(score_a, score_b)
         THEN merge_normalize_author_dir_name(left_a \o S(", ") \o Strip(SplitComma(dir_a)[2]))
       ELSE IF RatioGT(score_b, score_a)
         THEN merge_normalize_author_dir_name(left_b \o S(", ") \o Strip(SplitComma(dir_b)[2]))
       ELSE merge_normalize_author_dir_name(IF count_a >= count_b THEN dir_a ELSE dir_b)

\* ensure_unique_path with the existence test dropped
ensure_unique_path_taken(taken, name) == name

\* merge_reversed_author_pairs.py (resolve_outlier_authors.py:101-112 holds the
\* same text); taken holds the names in path.parent
ensure_unique_path(taken, name) ==
    IF name \notin taken THEN name
    ELSE FirstFree(taken, PathStem(name), PathSuffix(name), 2)

\* lines 213-216: item of directory d moved into dest under a free name
MovePairItem(t, d, dest, item) ==
    LET target == ensure_unique_path(DOMAIN t[dest].entries, item)
        t1 == Put(t, d, Dir(Del(t[d].entries, item)))
    IN Put(t1, dest, Dir(Put(t1[dest].entries, target, t[d].entries[item])))

\* d.rmdir() inside try/except OSError: removes d when it is empty
TryRmdir(t, d) == IF d \in DOMAIN t /\ t[d].entries = EmptyMap THEN Del(t, d) ELSE t

TwoBookShelves(k) ==
    { EmptyMap,
      S("Book.epub") :> File(<<k>>),
      (S("Book.epub") :> File(<<k>>)) @@ (S("Book_2.epub") :> File(<<k, 2>>)) }

MergeNames == {S("Asimov, Isaac"), S("Isaac, Asimov"), S("ASIMOV, Isaac"), S("Bob, Bob")}

MergeMeta ==
    {ReadFails, Reads(<< >>), Reads(<<S("Isaac Asimov")>>), Reads(<<S("isaac, asimov")>>),
     Reads(<<S("isaac, asimov"), S("Isaac Asimov"), S("ISAAC Asimov")>>)}

InitMerge ==
    /\ prog = "merge"
    /\ pc = "mrg_find"
    /\ tree \in LibraryTrees(MergeNames, 1, [k \in 1..MaxDirs |-> TwoBookShelves(k)])
    /\ tree0 = tree
    /\ inp \in [dry_run : BOOLEAN, meta : [main : MergeMeta, other : {ReadFails, Reads(<<S("isaac, asimov")>>)}]]
    /\ loc = [pairs |-> {}, dir_a |-> << >>, dir_b |-> << >>, canonical_name |-> << >>,
              before |-> tree, which |-> 1, items |-> {}, moved |-> 0, merged |-> 0]
    /\ out = << >>

\* line 241: find_reversed_pairs(root)
MergeFind ==
    /\ prog = "merge"
    /\ pc = "mrg_find"
    /\ LET key == [d \in AuthorDirs(tree) |-> split_author_dir(d)]
           keyed == {d \in AuthorDirs(tree) : key[d] # NoPair}
       IN \E firsts \in SUBSET keyed :
             /\ \A d \in keyed : Cardinality({e \in firsts : key[e] = key[d]}) = 1
             /\ loc' = [loc EXCEPT !.pairs =
                          ReversedPairs([k \in {key[d] : d \in firsts} |->
                                           CHOOSE d \in firsts : key[d] = k])]
    /\ pc' = "mrg_pairs"
    /\ UNCHANGED <<prog, tree, tree0, inp, out>>

\* lines 246-247 and 207-210: the next pair, its canonical name, dest.mkdir()
MergeChoose ==
    /\ prog = "merge"
    /\ pc = "mrg_pairs"
    /\ \E pair \in loc.pairs :
          \E order_a \in Orders(GlobEpub(tree, pair[1])), order_b \in Orders(GlobEpub(tree, pair[2])) :
             LET canonical_name ==
                     choose_canonical_by_metadata(tree, pair[1], pair[2], order_a, order_b)
             IN /\ tree' = IF inp.dry_run \/ canonical_name \in DOMAIN tree THEN tree
                           ELSE Put(tree, canonical_name, Dir(EmptyMap))
                /\ loc' = [loc EXCEPT !.pairs = @ \ {pair}, !.dir_a = pair[1],
                                      !.dir_b = pair[2], !.canonical_name = canonical_name,
                                      !.before = tree, !.which = 1, !.moved = 0]
    /\ pc' = "mrg_list"
    /\ UNCHANGED <<prog, tree0, inp, out>>

\* the directory the outer loop of merge_pair is at
CurrentDir == IF loc.which = 1 THEN loc.dir_a ELSE loc.dir_b

\* line 212: d.iterdir() lists d, and raises when d is gone
MergeList ==
    /\ prog = "merge"
    /\ pc = "mrg_list"
    /\ IF CurrentDir \in DOMAIN tree
       THEN /\ loc' = [loc EXCEPT !.items = DOMAIN tree[CurrentDir].entries]
            /\ pc' = "mrg_items"
       ELSE /\ pc' = "crashed"
            /\ UNCHANGED loc
    /\ UNCHANGED <<prog, tree, tree0, inp, out>>

\* lines 213-217: the next item; shutil.move of a file raises when dest is gone
MergeMove ==
    /\ prog = "merge"
    /\ pc = "mrg_items"
    /\ \E item \in loc.items :
          IF inp.dry_run
          THEN /\ loc' = [loc EXCEPT !.items = @ \ {item}, !.moved = @ + 1]
               /\ UNCHANGED <<pc, tree>>
          ELSE IF loc.canonical_name \notin DOMAIN tree
          THEN /\ pc' = "crashed"
               /\ UNCHANGED <<loc, tree>>
          ELSE /\ tree' = MovePairItem(tree, CurrentDir, loc.canonical_name, item)
               /\ loc' = [loc EXCEPT !.items = @ \ {item}, !.moved = @ + 1]
               /\ UNCHANGED pc
    /\ UNCHANGED <<prog, tree0, inp, out>>

\* lines 218-222: d.rmdir(), then the other directory or the end of the loop
MergeRmdir ==
    /\ prog = "merge"
    /\ pc = "mrg_items"
    /\ loc.items = {}
    /\ tree' = IF inp.dry_run THEN tree ELSE TryRmdir(tree, CurrentDir)
    /\ IF loc.which = 1
       THEN /\ loc' = [loc EXCEPT !.which = 2]
            /\ pc' = "mrg_list"
       ELSE /\ pc' = "mrg_log"
            /\ UNCHANGED loc
    /\ UNCHANGED <<prog, tree0, inp, out>>

\* lines 223-225 and 248: the MERGED line, merge_pair returns
MergeLog ==
    /\ prog = "merge"
    /\ pc = "mrg_log"
    /\ out' = IF inp.dry_run THEN out
              ELSE Append(out, [dir_a |-> loc.dir_a, dir_b |-> loc.dir_b,
                                canonical_name |-> loc.canonical_name, items |-> loc.moved])
    /\ loc' = [loc EXCEPT !.merged = @ + 1]
    /\ pc' = "mrg_pairs"
    /\ UNCHANGED <<prog, tree, tree0, inp>>

\* lines 250-255
MergeSummary ==
    /\ prog = "merge"
    /\ pc = "mrg_pairs"
    /\ loc.pairs = {}
    /\ pc' = "done"
    /\ UNCHANGED <<prog, tree, tree0, inp, loc, out>>

NextMerge ==
    MergeFind \/ MergeChoose \/ MergeList \/ MergeMove \/ MergeRmdir \/ MergeLog \/ MergeSummary

SpecMerge == InitMerge /\ [][NextMerge]_vars

\* the files directly in directory d of tree t, as a set of contents
FilesOf(t, d) ==
    IF d \in DOMAIN t
    THEN {t[d].entries[n].content : n \in {m \in DOMAIN t[d].entries : t[d].entries[m].kind = "file"}}
    ELSE {}

NumFiles(t, d) ==
    IF d \in DOMAIN t
    THEN Cardinality({m \in DOMAIN t[d].entries : t[d].entries[m].kind = "file"})
    ELSE 0

\* merge_pair has ended for the pair (dir_a, dir_b): it returned or it raised
MergePairEnded ==
    /\ prog = "merge"
    /\ ~inp.dry_run
    /\ loc.dir_a # loc.dir_b
    /\ pc \in {"mrg_log", "crashed"}

\* C3 (as claimed): when merge_pair has ended for reversed directories A # B
\* with canonical name C, the directory C exists, A and B do not exist unless
\* they are C, and C holds exactly the files that A, B and a pre-existing C
\* held before, as many as before.
C3_PairConserved ==
    MergePairEnded =>
        LET A == loc.dir_a
            B == loc.dir_b
            C == loc.canonical_name
        IN /\ C \in AuthorDirs(tree)
           /\ \A d \in {A, B} \ {C} : d \notin DOMAIN tree
           /\ FilesOf(tree, C) = UNION {FilesOf(loc.before, d) : d \in {A, B, C}}
           /\ NumFiles(tree, C) =
                NumFiles(loc.before, A) + NumFiles(loc.before, B)
                  + (IF C \in {A, B} THEN 0 ELSE NumFiles(loc.before, C))

(***************************************************************************)
(* resolve_outlier_authors.py: main(), one outlier directory per step.     *)
(***************************************************************************)
resolve_normalize_author_dir_name(author) == NormalizeWith(author, TRUE, S("Unknown Author"))

IsEpubFile(entries, n) == entries[n].kind = "file" /\ EndsWith(n, S(".epub"))

\* the paths, below an outlier directory, of the files rglob('*.epub') yields:
\* those of the directory itself, and those of its subdirectories
TopEpubs(entries) == {<<n>> : n \in {m \in DOMAIN entries : IsEpubFile(entries, m)}}

SubEpubs(entries) ==
    UNION {{<<n, m>> : m \in {x \in DOMAIN entries[n].entries : IsEpubFile(entries[n].entries, x)}} :
           n \in {y \in DOMAIN entries : entries[y].kind = "dir"}}

NodeAt(entries, p) == IF Len(p) = 1 THEN entries[p[1]] ELSE entries[p[1]].entries[p[2]]

RemoveAt(entries, p) ==
    IF Len(p) = 1 THEN Del(entries, p[1])
    ELSE Put(entries, p[1], Dir(Del(entries[p[1]].entries, p[2])))

\* the one element of a singleton
Only(X) == CHOOSE x \in X : TRUE

\* lines 119-130, given the display names and keys of the authors in the order read
AuthorVotes(display, keys) ==
    [keys |-> keys,
     votes |-> [k \in Range(keys) |-> Cardinality({i \in 1..Len(keys) : keys[i] = k})],
     canon_to_display |->
         [k \in Range(keys) |-> display[SetMin({i \in 1..Len(keys) : keys[i] = k})]]]

\* collect_author_votes: the authors read, in the order read, their canonical
\* display names and their keys
collect_author_votes(entries, epubs) ==
    Only({ Only({ AuthorVotes(display, keys) :
                    keys \in {[i \in 1..Len(display) |-> canonical_key(display[i])]} }) :
           display \in { Only({ [i \in 1..Len(authors) |->
                                   resolve_normalize_author_dir_name(authors[i])] :
                                authors \in {Flatten([i \in 1..Len(epubs) |->
                                    AuthorsOf(NodeAt(entries, epubs[i]).content)])} }) } })

\* line 151 with the confidence test replaced by True
is_confident_always(nkeys, count, total_votes, majority_threshold) == TRUE

\* line 151: len(votes) == 1 or top_ratio >= majority_threshold, the
\* threshold given as <<numerator, denominator>>
is_confident(nkeys, count, total_votes, majority_threshold) ==
    nkeys = 1 \/ count * majority_threshold[2] >= majority_threshold[1] * total_votes

\* lines 156-160: the epubs, in the order given, moved into dest_dir
RECURSIVE MoveEpubs(_, _, _, _)
MoveEpubs(t, d, dest, epubs) ==
    IF epubs = << >> THEN t
    ELSE LET p == epubs[1]
             target == ensure_unique_path(DOMAIN t[dest].entries, p[Len(p)])
             t1 == Put(t, d, Dir(RemoveAt(t[d].entries, p)))
             t2 == Put(t1, dest, Dir(Put(t1[dest].entries, target, NodeAt(t[d].entries, p))))
         IN MoveEpubs(t2, d, dest, Tail(epubs))

\* lines 163-173: empty subdirectories removed, then the directory itself if empty
CleanUp(t, d) ==
    LET entries == t[d].entries
        kept == {n \in DOMAIN entries : ~(entries[n].kind = "dir" /\ entries[n].entries = EmptyMap)}
        t1 == Put(t, d, Dir([n \in kept |-> entries[n]]))
    IN TryRmdir(t1, d)

\* lines 153-175 with every "if not dry_run" taken as true
MoveToTargetAlways(t, outlier_dir, target_author, epubs, dry_run) ==
    LET made == IF target_author \in DOMAIN t THEN t ELSE Put(t, target_author, Dir(EmptyMap))
    IN CleanUp(MoveEpubs(made, outlier_dir, target_author, epubs), outlier_dir)

\* lines 153-175: dest_dir.mkdir, the moves and the clean-up, unless dry_run
MoveToTarget(t, outlier_dir, target_author, epubs, dry_run) ==
    LET made == IF target_author \in DOMAIN t THEN t ELSE Put(t, target_author, Dir(EmptyMap))
    IN IF dry_run THEN t
       ELSE CleanUp(MoveEpubs(made, outlier_dir, target_author, epubs), outlier_dir)

\* lines 142-178, given the votes c collected at line 141
ResolveOutcome(t, outlier_dir, dry_run, majority_threshold, epubs, c) ==
    LET total_votes == Len(c.keys)
        key == most_common(c.keys)
        target_author == c.canon_to_display[key]
        nothing == [tree |-> t, votes |-> c.votes, target |-> << >>, moved |-> 0]
    IN IF total_votes = 0 THEN nothing @@ [action |-> "no_authors_in_metadata"]
       ELSE IF is_confident(Cardinality(DOMAIN c.votes), c.votes[key], total_votes, majority_threshold)
         THEN [tree |-> MoveToTarget(t, outlier_dir, target_author, epubs, dry_run),
               votes |-> c.votes, target |-> target_author, moved |-> Len(epubs),
               action |-> "moved_to"]
       ELSE nothing @@ [action |-> "ambiguous_authors"]

resolve_outlier_dir(t, outlier_dir, dry_run, majority_threshold, epubs) ==
    IF epubs = << >>
    THEN [tree |-> t, votes |-> EmptyMap, target |-> << >>, moved |-> 0, action |-> "no_epubs_found"]
    ELSE Only({ ResolveOutcome(t, outlier_dir, dry_run, majority_threshold, epubs, c) :
                c \in {collect_author_votes(t[outlier_dir].entries, epubs)} })

ResShelves(k) ==
    { S("cover.jpg") :> File(<<k, 0, 0>>),
      (S("Book.epub") :> File(<<k>>)) @@ (S("cover.jpg") :> File(<<k, 0, 0>>)),
      (S("Book.epub") :> File(<<k>>)) @@ (S("sub") :> Dir(S("Book.epub") :> File(<<k, 1>>))) }

ResNames == {S("__OUTLIER__ x"), S("__OUTLIER__ X"), S("ASIMOV, Isaac")}

IsaacAsimov == S("Isaac Asimov")
JoseSmith == S("Jose Smith")
JulesVerne == S("Jules Verne")

ResMetaMain ==
    {ReadFails, Reads(<< >>), Reads(<<IsaacAsimov>>),
     Reads(<<IsaacAsimov, JoseSmith, JulesVerne>>),
     Reads(<<IsaacAsimov, IsaacAsimov, IsaacAsimov, IsaacAsimov, JoseSmith>>),
     Reads(<<JoseSmith, S("Jos") \o <<EAcute>> \o S(" Smith")>>),
     Reads(<<S("Smith, John, Jr.")>>)}

ResMetaOther == {ReadFails, Reads(<<JulesVerne>>)}

Thresholds == {<<4, 5>>, <<1, 2>>}

InitResolve ==
    /\ prog = "resolve"
    /\ pc = "res_loop"
    /\ tree \in LibraryTrees(ResNames, 1, [k \in 1..MaxDirs |-> ResShelves(k)])
    /\ tree0 = tree
    /\ inp \in [dry_run : BOOLEAN, threshold : Thresholds,
                meta : [main : ResMetaMain, other : ResMetaOther]]
    /\ loc = [todo |-> {d \in AuthorDirs(tree) : StartsWith(d, OutlierPrefix)},
              fixed |-> 0, ambiguous |-> 0]
    /\ out = << >>

\* lines 200-206: the next outlier directory, by name.lower()
ResolveDir ==
    /\ prog = "resolve"
    /\ pc = "res_loop"
    /\ \E d \in FirstByLower(loc.todo) :
          \E top \in Orders(TopEpubs(tree[d].entries)), sub \in Orders(SubEpubs(tree[d].entries)) :
             \E r \in {resolve_outlier_dir(tree, d, inp.dry_run, inp.threshold, top \o sub)} :
                /\ tree' = r.tree
                /\ out' = Append(out, [name |-> d, action |-> r.action, votes |-> r.votes,
                                       target |-> r.target, moved |-> r.moved])
                /\ loc' = [loc EXCEPT !.todo = @ \ {d},
                                      !.fixed = @ + (IF r.action = "moved_to" THEN 1 ELSE 0),
                                      !.ambiguous = @ + (IF r.action = "ambiguous_authors" THEN 1 ELSE 0)]
    /\ UNCHANGED <<prog, pc, tree0, inp>>

\* lines 208-211: the report
ResolveReport ==
    /\ prog = "resolve"
    /\ pc = "res_loop"
    /\ loc.todo = {}
    /\ pc' = "done"
    /\ UNCHANGED <<prog, tree, tree0, inp, loc, out>>

NextResolve == ResolveDir \/ ResolveReport

SpecResolve == InitResolve /\ [][NextResolve]_vars

\* resolve_outlier_dir has run for one more outlier directory
ResolveStep == prog = "resolve" /\ pc = "res_loop" /\ Len(out') = Len(out) + 1

\* the contents of the .epub files at or below directory d
EpubContents(t, d) ==
    {NodeAt(t[d].entries, p).content : p \in TopEpubs(t[d].entries) \cup SubEpubs(t[d].entries)}

\* one ballot for every author every file names
Ballots(t, d) == UNION {{<<c, i>> : i \in 1..Len(AuthorsOf(c))} : c \in EpubContents(t, d)}

BallotKey(b) == canonical_key(resolve_normalize_author_dir_name(AuthorsOf(b[1])[b[2]]))

\* the ballots counted by canonical key
VoteTally(t, d) ==
    [k \in {BallotKey(b) : b \in Ballots(t, d)} |->
        Cardinality({b \in Ballots(t, d) : BallotKey(b) = k})]

\* one distinct key, or some key with a share of at least the threshold
ConfidentTally(tally, total, threshold) ==
    \/ Cardinality(DOMAIN tally) = 1
    \/ \E k \in DOMAIN tally : tally[k] * threshold[2] >= threshold[1] * total

\* C8: resolve_outlier_dir changes the tree, or reports a move, only if the
\* votes have one distinct canonical key or the top key has at least the
\* threshold's share of them; when there are votes and neither holds, the
\* outcome is ambiguous_authors, the tally is recorded and the tree is unchanged.
C8_MovesOnlyWhenConfident ==
    [][ResolveStep =>
         \E r \in {out'[Len(out')]} :
            \E tally \in {VoteTally(tree, r.name)} :
               LET total == Cardinality(Ballots(tree, r.name))
                   confident == ConfidentTally(tally, total, inp.threshold)
               IN /\ tree' # tree => confident
                  /\ r.action = "moved_to" => confident
                  /\ (total > 0 /\ ~confident) =>
                        /\ r.action = "ambiguous_authors"
                        /\ r.votes = tally
                        /\ tree' = tree]_vars

\* a 1/1/1 vote was found ambiguous and the directory is as it was
C8_Witness ==
    /\ prog = "resolve"
    /\ \E i \in DOMAIN out :
          /\ out[i].action = "ambiguous_authors"
          /\ Cardinality(DOMAIN out[i].votes) = 3
          /\ \A k \in DOMAIN out[i].votes : out[i].votes[k] = 1
          /\ out[i].name \in DOMAIN tree
          /\ tree[out[i].name] = tree0[out[i].name]

\* the files of d whose metadata read does not raise, one ballot per author
ReadableBallots(t, d) ==
    UNION {{<<c, i>> : i \in 1..Len(get_book_info(c).authors)} :
           c \in {x \in EpubContents(t, d) : ~get_book_info(x).raises}}

ReadableKey(b) == canonical_key(resolve_normalize_author_dir_name(get_book_info(b[1]).authors[b[2]]))

\* C9: when an outlier directory has .epub files and every metadata read
\* fails or yields no author, resolve_outlier_dir reports
\* no_authors_in_metadata and leaves the tree as it is; in every case the run
\* goes on and the votes recorded are those of the files that could be read.
C9_NoEvidenceNoChange ==
    [][ResolveStep =>
         \E r \in {out'[Len(out')]} :
            LET files == EpubContents(tree, r.name)
                ballots == ReadableBallots(tree, r.name)
            IN /\ (files # {} /\ \A c \in files : get_book_info(c).raises \/ get_book_info(c).authors = << >>) =>
                     (r.action = "no_authors_in_metadata" /\ tree' = tree)
               /\ pc' = "res_loop"
               /\ DOMAIN r.votes = {ReadableKey(b) : b \in ballots}
               /\ \A k \in DOMAIN r.votes :
                     r.votes[k] = Cardinality({b \in ballots : ReadableKey(b) = k})]_vars

\* a directory whose only book could not be read was reported and left alone
C9_Witness ==
    /\ prog = "resolve"
    /\ inp.meta.main = ReadFails
    /\ tree = tree0
    /\ \E i \in DOMAIN out :
          /\ out[i].action = "no_authors_in_metadata"
          /\ EpubContents(tree, out[i].name) # {}

(***************************************************************************)
(* The five programs that copy or move files.                              *)
(***************************************************************************)
Init == InitExec \/ InitFlag \/ InitSanitize \/ InitMerge \/ InitResolve

Next == NextExec \/ NextFlag \/ NextSanitize \/ NextMerge \/ NextResolve

Spec == Init /\ [][Next]_vars

\* the files of a tree: <<path, content>>, the path from the library root
Leaves(t) ==
    UNION { LET entries == t[d].entries
            IN {<<<<d, n>>, entries[n].content>> :
                   n \in {x \in DOMAIN entries : entries[x].kind = "file"}}
               \cup
               UNION {{<<<<d, n, m>>, entries[n].entries[m].content>> :
                          m \in DOMAIN entries[n].entries} :
                      n \in {x \in DOMAIN entries : entries[x].kind = "dir"}} :
            d \in AuthorDirs(t) }

LastName(path) == path[Len(path)]

\* new is old with _1, _2, ... before the extension
IsSuffixedName(new, old, most) ==
    \E k \in 1..most : new = Suffixed(PathStem(old), k, PathSuffix(old))

\* C2: no step of the executor, the flag pass, the sanitizer, the
\* reversed-pair merge or the outlier resolution changes the content found at a
\* path that exists before and after it; outside the sanitizer's file pass,
\* which deletes non-books, every content is still there afterwards, and a
\* file that was moved under another name has its old name with a numeric
\* suffix.
C2_NoOverwrite ==
    [][\E before \in {Leaves(tree)} :
          \E after \in {Leaves(tree')} :
             /\ \A l \in before : \A m \in after : m[1] = l[1] => m[2] = l[2]
             /\ pc # "san_files" =>
                   /\ {l[2] : l \in before} \subseteq {m[2] : m \in after}
                   /\ Cardinality(after) >= Cardinality(before)
             /\ (pc # "san_files" /\ prog # "execute") =>
                   \A l \in before : \A m \in after :
                      (m[2] = l[2] /\ LastName(m[1]) # LastName(l[1])) =>
                         IsSuffixedName(LastName(m[1]), LastName(l[1]), Cardinality(after) + 1)]_vars

\* merge_pair has merged two directories that each held a Book.epub: the
\* destination holds both, one of them as Book_2.epub
C2_Witness ==
    /\ prog = "merge"
    /\ pc = "mrg_log"
    /\ ~inp.dry_run
    /\ loc.dir_a # loc.dir_b
    /\ S("Book.epub") \in DOMAIN loc.before[loc.dir_a].entries
    /\ S("Book.epub") \in DOMAIN loc.before[loc.dir_b].entries
    /\ loc.canonical_name \in DOMAIN tree
    /\ {S("Book.epub"), S("Book_2.epub")} \subseteq DOMAIN tree[loc.canonical_name].entries
    /\ {loc.before[loc.dir_a].entries[S("Book.epub")].content,
        loc.before[loc.dir_b].entries[S("Book.epub")].content}
         = {tree[loc.canonical_name].entries[S("Book.epub")].content,
            tree[loc.canonical_name].entries[S("Book_2.epub")].content}

(***************************************************************************)
(* plan_full_transfer.py: plan(), one inventory item per step.             *)
(***************************************************************************)
MaxPlanItems == 3

PlanTargetRoot == S("data/full_library")

\* Path(src).name
PathName(src) ==
    SubSeq(src, SetMax({i \in 1..Len(src) : src[i] = "/"} \cup {0}) + 1, Len(src))

\* lines 47-52: the planner's copy of safe_fs_name
plan_safe_fs_name(name) == safe_fs_name(name)

\* the components of a relative path as pathlib parses it: split at "/",
\* empty and "." components dropped
RECURSIVE PathParts(_)
PathParts(p) ==
    IF p = << >> THEN << >>
    ELSE LET cut == SetMin({i \in 1..Len(p) : p[i] = "/"} \cup {Len(p) + 1})
             head == SubSeq(p, 1, cut - 1)
             rest == PathParts(SubSeq(p, cut + 1, Len(p)))
         IN IF head \in {<< >>, S(".")} THEN rest ELSE <<head>> \o rest

\* Path.__truediv__: a segment that starts with "/" replaces what precedes it
PathJoin(a, b) ==
    IF b # << >> /\ b[1] = "/" THEN <<S("/")>> \o PathParts(b) ELSE a \o PathParts(b)

\* line 144: the components of target_root / author_canon / safe_name
TargetParts(target_root, author_canon, safe_name) ==
    PathJoin(PathJoin(PathParts(target_root), author_canon), safe_name)

\* line 144 and str(target_path)
TargetPath(target_root, author_canon, safe_name) ==
    Join(<<"/">>, TargetParts(target_root, author_canon, safe_name))

\* line 156 with the first occurrence counted as a collision
is_predicted_collision_from_first(count) == count >= 1

\* line 156: target_name_counts[key] > 1
is_predicted_collision(count) == count > 1

PlanSources == {S("a/B:k.epub"), S("b/B?k.epub"), S("c/b_k.epub")}

\* author_hint of an inventory item; << >> is None
PlanHints == {<< >>, S("Jane Doe"), S("doe, jane")}

InventoryItems ==
    {[source_path |-> s, author_hint |-> h,
      author_hint_source |-> IF h = << >> THEN "" ELSE "filename"] :
        s \in PlanSources, h \in PlanHints}

Inventories == UNION {[1..n -> InventoryItems] : n \in 1..MaxPlanItems}

\* author_aliases.json: any JSON object is accepted (lines 101-107)
PlanAliases == {EmptyMap, S("Jane Doe") :> S("Doe Jane"), S("Jane Doe") :> << >>,
                S("Jane Doe") :> S("Doe: Jane")}

\* lines 136-159 for one item: the manifest row and the count of its key
PlanRow(it, aliases, target_name_counts) ==
    LET author_canon == choose_canonical_author(it.author_hint, aliases)[1]
        original_name == PathName(it.source_path)
        safe_name == plan_safe_fs_name(original_name)
        target_path == TargetPath(PlanTargetRoot, author_canon, safe_name)
        key == Lower(target_path)
        count == (IF key \in DOMAIN target_name_counts THEN target_name_counts[key] ELSE 0) + 1
        reasons == (IF safe_name # original_name THEN <<"illegal_chars_fixed">> ELSE << >>)
                   \o (IF it.author_hint_source # "" THEN <<"author_from_filename">>
                       ELSE <<"author_unknown_fallback">>)
                   \o (IF is_predicted_collision(count) THEN <<"predicted_collision">>
                       ELSE << >>)
    IN [row |-> [src |-> it.source_path, target |-> target_path, author |-> author_canon,
                 reasons |-> reasons],
        key |-> key, count |-> count]

\* line 177: sorted(collisions, key=lambda x: (-x[1], x[0]))
RECURSIVE SortCollisions(_)
SortCollisions(collisions) ==
    IF collisions = {} THEN << >>
    ELSE LET c == CHOOSE x \in collisions :
                     \A y \in collisions :
                        x[2] > y[2] \/ (x[2] = y[2] /\ StrLE(x[1], y[1]))
         IN <<c>> \o SortCollisions(collisions \ {c})

InitPlan ==
    /\ prog = "plan"
    /\ pc = "plan_loop"
    /\ tree = EmptyMap
    /\ tree0 = EmptyMap
    /\ inp \in [items : Inventories, aliases : PlanAliases]
    /\ loc = [i |-> 1, manifest_rows |-> << >>, target_name_counts |-> EmptyMap]
    /\ out = [manifest |-> << >>, collisions |-> << >>]

\* lines 135-159: the next item of the inventory
PlanItem ==
    /\ prog = "plan"
    /\ pc = "plan_loop"
    /\ loc.i <= Len(inp.items)
    /\ \E r \in {PlanRow(inp.items[loc.i], inp.aliases, loc.target_name_counts)} :
          loc' = [i |-> loc.i + 1,
                  manifest_rows |-> Append(loc.manifest_rows, r.row),
                  target_name_counts |-> Put(loc.target_name_counts, r.key, r.count)]
    /\ UNCHANGED <<prog, pc, tree, tree0, inp, out>>

\* lines 168-178: manifest.tsv and collisions.tsv
PlanWrite ==
    /\ prog = "plan"
    /\ pc = "plan_loop"
    /\ loc.i > Len(inp.items)
    /\ out' = [manifest |-> loc.manifest_rows,
               collisions |-> SortCollisions({<<k, loc.target_name_counts[k]>> :
                                 k \in {x \in DOMAIN loc.target_name_counts :
                                          loc.target_name_counts[x] > 1}})]
    /\ pc' = "done"
    /\ UNCHANGED <<prog, tree, tree0, inp, loc>>

NextPlan == PlanItem \/ PlanWrite

SpecPlan == InitPlan /\ [][NextPlan]_vars

\* the rows of manifest m whose target is path, compared in lower case
RowsAt(m, path) == {j \in 1..Len(m) : Lower(m[j].target) = Lower(path)}

\* C13: in the manifest the planner writes, a row has the reason
\* predicted_collision if and only if an earlier row has the same target path
\* in lower case; a flagged row's target is still <target root>/<author>/<safe
\* file name> with no suffix; and the collision report lists, once each, the
\* lower-cased target paths of more than one row with the number of such rows.
C13_CollisionPrediction ==
    (prog = "plan" /\ pc = "done") =>
        /\ Len(out.manifest) = Len(inp.items)
        /\ \A i \in 1..Len(out.manifest) :
              \E row \in {out.manifest[i]} :
                 /\ ("predicted_collision" \in Range(row.reasons))
                      <=> (\E j \in RowsAt(out.manifest, row.target) : j < i)
                 /\ row.target = TargetPath(PlanTargetRoot, row.author,
                                   safe_fs_name(PathName(inp.items[i].source_path)))
        /\ {out.collisions[i] : i \in 1..Len(out.collisions)}
             = {<<Lower(out.manifest[i].target),
                  Cardinality(RowsAt(out.manifest, out.manifest[i].target))>> :
                  i \in {j \in 1..Len(out.manifest) :
                           Cardinality(RowsAt(out.manifest, out.manifest[j].target)) > 1}}
        /\ \A i, j \in 1..Len(out.collisions) :
              out.collisions[i][1] = out.collisions[j][1] => i = j

\* a manifest is written whose second row is flagged for a target that
\* differs from the first row's by case only, and the report counts the two
C13_Witness ==
    /\ prog = "plan"
    /\ pc = "done"
    /\ Len(out.manifest) >= 2
    /\ "predicted_collision" \in Range(out.manifest[2].reasons)
    /\ "predicted_collision" \notin Range(out.manifest[1].reasons)
    /\ out.manifest[2].target # out.manifest[1].target
    /\ out.collisions = << <<Lower(out.manifest[1].target), 2>> >>

(***************************************************************************)
(* Claims about the reversed-pair merge.                                   *)
(***************************************************************************)
\* the unordered pairs of distinct directories of t of which neither is a
\* collective category, both split at the comma into two non-empty tokens,
\* and one's (left, right) is the other's (right, left)
ReversedPairsOf(t) ==
    {{x, y} : <<x, y>> \in
        {p \in AuthorDirs(t) \X AuthorDirs(t) :
            /\ p[1] # p[2]
            /\ split_author_dir(p[1]) # NoPair
            /\ split_author_dir(p[2]) # NoPair
            /\ split_author_dir(p[1]) = <<split_author_dir(p[2])[2], split_author_dir(p[2])[1]>>}}

\* C14 (as claimed): find_reversed_pairs reports two directories as a pair
\* exactly when neither is a collective category, both names split into
\* non-empty normalized tokens and one's (left, right) is the other's
\* (right, left), and it reports each such unordered pair once.
C14_ReversedPairsExactly ==
    [][(prog = "merge" /\ pc = "mrg_find") =>
         \E claimed \in {ReversedPairsOf(tree)} :
            /\ {{p[1], p[2]} : p \in loc'.pairs} = claimed
            /\ Cardinality(loc'.pairs) = Cardinality(claimed)]_vars

\* C16 (as claimed): when merge_pair has returned for two directories and the
\* canonical directory existed before, every item it held then is in it
\* still, under its name and with its content.
C16_CanonicalUntouched ==
    (/\ prog = "merge"
     /\ pc = "mrg_log"
     /\ ~inp.dry_run
     /\ loc.dir_a # loc.dir_b
     /\ loc.canonical_name \in DOMAIN loc.before) =>
        \A n \in DOMAIN loc.before[loc.canonical_name].entries :
              /\ loc.canonical_name \in DOMAIN tree
              /\ n \in DOMAIN tree[loc.canonical_name].entries
              /\ tree[loc.canonical_name].entries[n] = loc.before[loc.canonical_name].entries[n]

\* one ballot for every author that every readable .epub of directory d names
MergeBallots(t, d) ==
    UNION {{<<d, n, i>> : i \in 1..Len(AuthorsOf(t[d].entries[n].content))} : n \in GlobEpub(t, d)}

MergeBallotKey(t, b) ==
    canonical_key(merge_normalize_author_dir_name(AuthorsOf(t[b[1]].entries[b[2]].content)[b[3]]))

\* C17 (as claimed), for the reversed-pair merge: when the metadata of the
\* pair names an author, the canonical name chosen has a canonical key that
\* no other key exceeds in the tally of the ballots by canonical key.
C17_TalliedByKey ==
    [][(prog = "merge" /\ pc = "mrg_pairs" /\ pc' = "mrg_list" /\ loc'.dir_a # loc'.dir_b) =>
         \E ballots \in {MergeBallots(tree, loc'.dir_a) \cup MergeBallots(tree, loc'.dir_b)} :
            \E keys \in {[b \in ballots |-> MergeBallotKey(tree, b)]} :
               LET tally(k) == Cardinality({b \in ballots : keys[b] = k})
               IN ballots # {} =>
                     \A b \in ballots : tally(canonical_key(loc'.canonical_name)) >= tally(keys[b])]_vars

(***************************************************************************)
(* Claims about the outlier resolution and about dry runs.                 *)
(***************************************************************************)
\* the contents of the files at or below directory d of tree t
AllContents(t, d) == {l[2] : l \in {m \in Leaves(t) : m[1][1] = d}}

\* C15 (as claimed): when resolve_outlier_dir, not in a dry run, reports
\* moved_to for an outlier directory, that directory is gone and every file
\* that was in it or below it is a file of the target directory.
C15_AllMovedDirGone ==
    [][ResolveStep =>
         \E r \in {out'[Len(out')]} :
            (r.action = "moved_to" /\ ~inp.dry_run) =>
               /\ r.name \notin DOMAIN tree'
               /\ AllContents(tree, r.name) \subseteq FilesOf(tree', r.target)]_vars

FORBIDDEN == Range(S("<>:\"/\\|?*"))

\* the files directly in the directory with the given entries
FileNames(entries) == {n \in DOMAIN entries : entries[n].kind = "file"}

\* path.is_file() and path.suffix.lower() in BOOK_EXTENSIONS
is_book_file(entries, n) ==
    entries[n].kind = "file" /\ Lower(PathSuffix(n)) \in BOOK_EXTENSIONS

normalize_for_key(name) == canonical_key(name)

\* line 110: name.split()[0] raises IndexError for a name of white space only
CoverageRaises(authors) ==
    \E name \in authors : "," \notin Range(name) /\ SplitWs(name) = << >>

\* lines 65-104: the issues, as a set
validate(t) ==
    LET authors == AuthorDirs(t)
        full_books == UNION {{<<a, f>> : f \in {n \in DOMAIN t[a].entries :
                                                  is_book_file(t[a].entries, n)}} :
                             a \in authors}
        dups == {k \in {normalize_for_key(a) : a \in authors} :
                   Cardinality({a \in authors : normalize_for_key(a) = k}) > 1}
        non_epub == {b \in full_books : Lower(PathSuffix(b[2])) \notin BOOK_EXTENSIONS}
    IN {<<"Unexpected file at full_library root", p>> : p \in FileNames(t)}
       \cup (IF dups # {} THEN {<<"Duplicate author keys detected", Cardinality(dups)>>}
             ELSE {})
       \cup {<<"Forbidden char in author dir name", a>> :
               a \in {x \in authors : Range(x) \cap FORBIDDEN # {}}}
       \cup (IF non_epub # {} THEN {<<"Non-EPUB files found", Cardinality(non_epub)>>}
             ELSE {})
       \cup {<<"Forbidden char in filename", b>> :
               b \in {x \in full_books : Range(x[2]) \cap FORBIDDEN # {}}}

\* main(): exit status 2 with issues, 1 for the uncaught IndexError, else 0
ExitStatus(t) ==
    IF CoverageRaises(AuthorDirs(t)) THEN 1
    ELSE IF validate(t) # {} THEN 2
    ELSE 0

ValShelves(k) ==
    { EmptyMap,
      S("Book.epub") :> File(<<k>>),
      (S("Book.epub") :> File(<<k>>)) @@ (S("notes.txt") :> File(<<k, 0>>)),
      S("B?k.epub") :> File(<<k>>) }

ValNames == {S("DOE, Jane"), S("doe, jane"), S("A:B"), S(" ")}

InitValidate ==
    /\ prog = "validate"
    /\ pc = "val_run"
    /\ \E lib \in LibraryTrees(ValNames, 0, [k \in 1..MaxDirs |-> ValShelves(k)]) :
          tree \in {lib, Put(lib, S("stray.txt"), File(<<0, 0, 0>>))}
    /\ tree0 = tree
    /\ inp = << >>
    /\ loc = << >>
    /\ out = << >>

\* lines 130-134
ValidateRun ==
    /\ prog = "validate"
    /\ pc = "val_run"
    /\ out' = [status |-> ExitStatus(tree),
               issues |-> IF CoverageRaises(AuthorDirs(tree)) THEN {} ELSE validate(tree)]
    /\ pc' = "done"
    /\ UNCHANGED <<prog, tree, tree0, inp, loc>>

NextValidate == ValidateRun

SpecValidate == InitValidate /\ [][NextValidate]_vars

\* the library tree breaks one of the four checks
BreaksACheck(t) ==
    \/ FileNames(t) # {}
    \/ \E a, b \in AuthorDirs(t) : a # b /\ canonical_key(a) = canonical_key(b)
    \/ \E a \in AuthorDirs(t) :
          \/ Range(a) \cap ForbiddenChars # {}
          \/ \E f \in FileNames(t[a].entries) :
                \/ Range(f) \cap ForbiddenChars # {}
                \/ Lower(PathSuffix(f)) # S(".epub")

\* C18 (as claimed): the Validator's exit status is non-zero exactly when the
\* library root holds a loose file, two directories have the same canonical
\* key, a directory or file name holds a forbidden character, or an author
\* directory holds a file that is not an .epub; the tree is left as it was.
C18_StatusIffViolation ==
    (prog = "validate" /\ pc = "done") =>
        /\ (out.status # 0) <=> BreaksACheck(tree)
        /\ tree = tree0

(***************************************************************************)
(* audit_raw_library.py: the author hint taken from a file stem.  The      *)
(* stems of the model hold no bracket, no parenthesis and no word "by",    *)
(* so that the patterns of lines 73, 91 and 95 do not match them.          *)
(***************************************************************************)
MaxHintWords == 2

\* the series-marker tokens of line 46
SeriesMarkers == {S("tome"), S("vol"), S("volume"), S("partie"), S("part"), S("livre")}

\* lines 37-49: the test of line 47 is reached only when line 44 has not
\* returned True, and both its outcomes return False
looks_like_author(s) ==
    IF s = << >> THEN FALSE
    ELSE IF "," \in Range(s) THEN TRUE
    ELSE LET words == SplitWs(s)
             capitalized == Cardinality({i \in 1..Len(words) : IsUpperChar(words[i][1])})
         IN IF capitalized >= 2 /\ Len(words) <= 5 THEN TRUE
            ELSE IF \E i \in 1..Len(words) : Lower(words[i]) \in SeriesMarkers THEN FALSE
            ELSE FALSE

\* stem.split(" - ")
RECURSIVE SplitDash(_)
SplitDash(s) ==
    LET at == {i \in 1..(Len(s) - 2) : SubSeq(s, i, i + 2) = S(" - ")}
    IN IF at = {} THEN <<s>>
       ELSE <<SubSeq(s, 1, SetMin(at) - 1)>> \o SplitDash(SubSeq(s, SetMin(at) + 3, Len(s)))

NoGuess == [author |-> << >>, title_raw |-> << >>, found |-> FALSE]

\* lines 79-89 and 99: the author side and the title before clean_title
parse_filename_for_title_author(stem) ==
    LET split == SplitDash(stem)
        parts == [i \in 1..Len(split) |-> Strip(split[i])]
    IN IF Len(parts) >= 2
       THEN IF looks_like_author(parts[Len(parts)])
            THEN [author |-> parts[Len(parts)],
                  title_raw |-> Join(S(" - "), SubSeq(parts, 1, Len(parts) - 1)),
                  found |-> TRUE]
            ELSE IF looks_like_author(parts[1])
            THEN [author |-> parts[1], title_raw |-> Join(S(" - "), Tail(parts)),
                  found |-> TRUE]
            ELSE NoGuess
       ELSE NoGuess

HintWords == {S("Tome"), S("Deux"), S("dune"), S("Frank"), S("volume")}

HintSides ==
    {Join(S(" "), ws) : ws \in UNION {[1..n -> HintWords] : n \in 1..MaxHintWords}}
      \cup {S("Herbert, Frank"), S("Le Livre De La Jungle Enfin"), S("Dune")}

HintStems == HintSides \cup {a \o S(" - ") \o b : a \in HintSides, b \in HintSides}

InitHint ==
    /\ prog = "hint"
    /\ pc = "hint_run"
    /\ tree = EmptyMap
    /\ tree0 = EmptyMap
    /\ inp \in [stem : HintStems]
    /\ loc = << >>
    /\ out = << >>

\* line 124, and looks_like_author of every side of the stem
HintGuess ==
    /\ prog = "hint"
    /\ pc = "hint_run"
    /\ \E sides \in {SplitDash(inp.stem)} :
          out' = [sides |-> sides,
                  looks |-> [i \in 1..Len(sides) |-> looks_like_author(Strip(sides[i]))],
                  guess |-> parse_filename_for_title_author(inp.stem)]
    /\ pc' = "done"
    /\ UNCHANGED <<prog, tree, tree0, inp, loc>>

NextHint == HintGuess

SpecHint == InitHint /\ [][NextHint]_vars

HasSeriesMarker(s) == \E i \in 1..Len(SplitWs(s)) : Lower(SplitWs(s)[i]) \in SeriesMarkers

\* C20 (as claimed): a comma-free string that looks_like_author accepts has at
\* least two capitalized words, at most five words and no series-marker
\* token; and a comma-free author side taken from a file stem holds no
\* series-marker token.
C20_SeriesMarkerBlocks ==
    (prog = "hint" /\ pc = "done") =>
        /\ \A i \in 1..Len(out.sides) :
              (out.looks[i] /\ "," \notin Range(out.sides[i])) =>
                 LET words == SplitWs(out.sides[i])
                 IN /\ Cardinality({j \in 1..Len(words) : IsUpperChar(words[j][1])}) >= 2
                    /\ Len(words) <= 5
                    /\ ~HasSeriesMarker(out.sides[i])
        /\ (out.guess.found /\ "," \notin Range(out.guess.author)) =>
              ~HasSeriesMarker(out.guess.author)

(***************************************************************************)
(* Claims about the target paths and author names of the planner.          *)
(***************************************************************************)
\* C21: every target path of the manifest the planner writes is the target
\* root followed by exactly two components, a non-empty author directory and
\* the file name, so that no book is placed directly at the library root; for
\* every inventory entry and every alias table.
C21_NoBookAtRoot ==
    (prog = "plan" /\ pc = "done") =>
        \A i \in 1..Len(out.manifest) :
           \E parts \in {PathParts(out.manifest[i].target)} :
              /\ Len(parts) = Len(PathParts(PlanTargetRoot)) + 2
              /\ SubSeq(parts, 1, Len(parts) - 2) = PathParts(PlanTargetRoot)
              /\ parts[Len(parts) - 1] # << >>
              /\ parts[Len(parts)] = safe_fs_name(PathName(inp.items[i].source_path))

\* C22: the author name of every manifest row, from the alias table, from
\* the canonicalizer or from the unknown-author fallback, is not empty and
\* holds none of the characters < > : " / \ | ? *.
C22_AuthorNameSafe ==
    (prog = "plan" /\ pc = "done") =>
        \A i \in 1..Len(out.manifest) :
           /\ out.manifest[i].author # << >>
           /\ Range(out.manifest[i].author) \cap ForbiddenChars = {}

(***************************************************************************)
(* Claims about the flag pass.                                             *)
(***************************************************************************)
\* C23: a step of the flag pass, not a dry run, on a non-conforming directory
\* whose name normalizes to a conforming canonical name leaves the files the
\* directory held inside the directory that carries exactly the canonical
\* name, removes the old name, and creates no other directory.
C23_FixLandsInCanonical ==
    [][(prog = "flag" /\ pc = "flag_loop" /\ loc.todo # {} /\ ~inp.dry_run) =>
         \A name \in loc.todo \ loc'.todo :
            \E canon \in {normalize_author_dir_name(name)} :
               (~is_conforming_author_dir(name) /\ is_conforming_author_dir(canon)) =>
                  /\ DOMAIN tree' = (DOMAIN tree \ {name}) \cup {canon}
                  /\ ContentsIn(tree, name) \subseteq ContentsIn(tree', canon)]_vars

(***************************************************************************)
(* Two executor copies into one target root.  Each worker runs             *)
(* copy_with_collision_handling for one manifest line; the existence test  *)
(* with the choice of the name (lines 54-66) and the write (lines 68-69)   *)
(* are separate steps.  When inp.concurrent is FALSE the two lines belong  *)
(* to one process, which starts the second after the first has ended.      *)
(***************************************************************************)
Workers == 1..2

RaceJobs == [src : DOMAIN ExecSources, dst : ExecTargets]

InitRace ==
    /\ prog = "race"
    /\ pc = [w \in Workers |-> "check"]
    /\ tree \in ExecTrees
    /\ tree0 = tree
    /\ \E j1 \in RaceJobs, j2 \in RaceJobs, h \in BOOLEAN, c \in BOOLEAN :
          inp = [jobs |-> <<j1, j2>>, sources |-> ExecSources, verify_hash |-> h,
                 concurrent |-> c]
    /\ loc = [w \in Workers |-> [final_dst |-> << >>, status |-> ""]]
    /\ out = [log |-> << >>]

\* the lines of one process overlapping as those of two processes do
MayRunUnordered(w) == TRUE

\* no lock orders two processes; one process takes its lines in turn
MayRun(w) == inp.concurrent \/ w = 1 \/ pc[1] = "done"

\* lines 54-66: dst.exists(), the comparison, ensure_unique_target
RaceCheck(w) ==
    /\ prog = "race"
    /\ pc[w] = "check"
    /\ MayRun(w)
    /\ \E r \in {copy_with_collision_handling(tree, inp.sources[inp.jobs[w].src],
                                               inp.jobs[w].dst, inp.verify_hash)} :
          /\ loc' = [loc EXCEPT ![w] = [final_dst |-> r.final_dst, status |-> r.status]]
          /\ pc' = [pc EXCEPT ![w] = IF r.status = "copied" THEN "copy" ELSE "done"]
          /\ out' = IF r.status = "copied" THEN out
                    ELSE [out EXCEPT !.log = Append(@, <<r.status, inp.jobs[w].src, r.final_dst>>)]
    /\ UNCHANGED <<prog, tree, tree0, inp>>

\* lines 68-69: mkdir and shutil.copy2 to the name chosen before
RaceCopy(w) ==
    /\ prog = "race"
    /\ pc[w] = "copy"
    /\ tree' = CopyTo(tree, loc[w].final_dst[1], loc[w].final_dst[2],
                      inp.sources[inp.jobs[w].src])
    /\ pc' = [pc EXCEPT ![w] = "done"]
    /\ out' = [out EXCEPT !.log = Append(@, <<"copied", inp.jobs[w].src, loc[w].final_dst>>)]
    /\ UNCHANGED <<prog, tree0, inp, loc>>

NextRace == \E w \in Workers : RaceCheck(w) \/ RaceCopy(w)

SpecRace == InitRace /\ [][NextRace]_vars

\* worker w has chosen or written the target g
Chose(w, g) == pc[w] \in {"copy", "done"} /\ loc[w].status = "copied" /\ loc[w].final_dst = g

\* C24: with a single process the two lines never choose the same target name
\* and a file, once copied, stays at its target with the content of its
\* source; a replaced file therefore needs two concurrent processes.
C24_SingleProcessNoReplace ==
    (prog = "race" /\ ~inp.concurrent) =>
        /\ \A g \in {loc[1].final_dst} : ~(Chose(1, g) /\ Chose(2, g))
        /\ \A w \in Workers :
              (pc[w] = "done" /\ loc[w].status = "copied") =>
                 /\ Exists(tree, loc[w].final_dst[1], loc[w].final_dst[2])
                 /\ tree[loc[w].final_dst[1]].entries[loc[w].final_dst[2]].content
                      = inp.sources[inp.jobs[w].src]
        /\ \A l \in Leaves(tree0) : l \in Leaves(tree)

\* two concurrent processes chose the same free name, both copied, and the
\* content of the first's source is nowhere in the target tree
C24_Witness ==
    /\ prog = "race"
    /\ inp.concurrent
    /\ pc = [w \in Workers |-> "done"]
    /\ Chose(1, loc[2].final_dst)
    /\ Chose(2, loc[1].final_dst)
    /\ ~Exists(tree0, loc[1].final_dst[1], loc[1].final_dst[2])
    /\ inp.sources[inp.jobs[1].src] # inp.sources[inp.jobs[2].src]
    /\ inp.sources[inp.jobs[1].src] \notin {l[2] : l \in Leaves(tree)}

(***************************************************************************)
(* Claims about the names the outlier resolution creates.                  *)
(***************************************************************************)
\* C25: during and after the resolve phase every directory at the library
\* root has a name that is_conforming_author_dir accepts or that carries the
\* outlier prefix, and the target of every resolution reported as moved_to is
\* a name that is_conforming_author_dir accepts, whatever authors the metadata
\* reader returned.
C25_ResolvedNameConforms ==
    prog = "resolve" =>
        /\ \A d \in AuthorDirs(tree) :
              is_conforming_author_dir(d) \/ StartsWith(d, OutlierPrefix)
        /\ \A i \in 1..Len(out) :
              out[i].action = "moved_to" => is_conforming_author_dir(out[i].target)

(***************************************************************************)
(* execute_full_transfer.py, interrupted and started again: the process    *)
(* is killed between two manifest lines, before the last line has been     *)
(* taken, and the script is run again with the same manifest.              *)
(***************************************************************************)
\* the kill and the second start: execute() begins again at the first line
\* with fresh counters (lines 82-85), the target tree as the first run left it
ExecInterrupt ==
    /\ prog = "execute"
    /\ pc = "exec_loop"
    /\ loc.run = 1
    /\ loc.i <= Len(inp.manifest)
    /\ loc' = [i |-> 1, copied |-> 0, skipped |-> 0, created_authors |-> 0,
               seen_authors |-> {}, run |-> 2]
    /\ UNCHANGED <<prog, pc, tree, tree0, inp, out>>

NextResume == ExecEntry \/ ExecSummary \/ ExecInterrupt

SpecResume == InitExec /\ [][NextResume]_vars

\* the target tree after lines i.. of the manifest, every source readable
RECURSIVE ExecuteFrom(_, _, _, _, _)
ExecuteFrom(t, manifest, sources, verify_hash, i) ==
    IF i > Len(manifest) THEN t
    ELSE LET e == manifest[i]
             t1 == IF WellFormed(e) /\ e.src \in DOMAIN sources
                   THEN copy_with_collision_handling(t, sources[e.src], e.dst, verify_hash).tree
                   ELSE t
         IN ExecuteFrom(t1, manifest, sources, verify_hash, i + 1)

\* C26: a run that was interrupted after some lines of the manifest and then
\* started again ends with the target tree that one uninterrupted run of the
\* whole manifest on the starting tree produces.
C26_ResumeSameTree ==
    (prog = "execute" /\ pc = "done" /\ loc.run = 2 /\ inp.unreadable = {}) =>
        tree = ExecuteFrom(tree0, inp.manifest, inp.sources, inp.verify_hash, 1)

(***************************************************************************)
(* merge_reversed_author_pairs.py: find_reversed_pairs() on libraries      *)
(* whose names have no comma, one comma, several commas, an empty side,    *)
(* equal sides, or a compatibility form of the comma.                      *)
(***************************************************************************)
PairNames ==
    MergeNames \cup SPECIAL_AUTHORS \cup
    {S("a, b,c"), S("b") \o <<FwComma>> \o S("c, a"), S("a, b, c"), S("b, c, a"),
     S(", a"), S("a,"), S("Smith, Smith")}

InitPairs ==
    /\ prog = "merge"
    /\ pc = "mrg_find"
    /\ tree \in OneBookTrees(PairNames)
    /\ tree0 = tree
    /\ inp = [dry_run |-> TRUE, meta |-> [main |-> ReadFails, other |-> ReadFails]]
    /\ loc = [pairs |-> {}, dir_a |-> << >>, dir_b |-> << >>, canonical_name |-> << >>,
              before |-> tree, which |-> 1, items |-> {}, moved |-> 0, merged |-> 0]
    /\ out = << >>

NextPairs == MergeFind

SpecPairs == InitPairs /\ [][NextPairs]_vars

\* the name has exactly one comma with something other than spaces on both
\* sides, and is none of the collective categories
OneCommaName(d) ==
    /\ d \notin SPECIAL_AUTHORS
    /\ Count(d, ",") = 1
    /\ Strip(SplitComma(d)[1]) # << >>
    /\ Strip(SplitComma(d)[2]) # << >>

\* C27: every member of a pair find_reversed_pairs reports is a name with
\* exactly one comma and two non-empty sides and is no collective category;
\* no name with two or more commas is a member of a reported pair.
C27_OnlyOneCommaNamesPair ==
    (prog = "merge" /\ pc = "mrg_pairs") =>
        \A p \in loc.pairs : OneCommaName(p[1]) /\ OneCommaName(p[2])

\* C29: find_reversed_pairs reports no pair whose two members are the same
\* directory, also when the two tokens of a name are equal.
C29_NoSelfPair ==
    (prog = "merge" /\ pc = "mrg_pairs") =>
        \A p \in loc.pairs : p[1] # p[2]

(***************************************************************************)
(* Claims about the sanitation pass.                                       *)
(***************************************************************************)
\* C28: at every point of merge_duplicate_authors and sanitize_filenames the
\* content of every file that was inside an author directory when the pass
\* began is still the content of a file of the target tree, under some name
\* in some directory, whatever the extension of the file.
C28_SanitizeDeletesNothing ==
    prog = "sanitize" =>
        {l[2] : l \in Leaves(tree0)} \subseteq {l[2] : l \in Leaves(tree)}

(***************************************************************************)
(* flag_outlier_authors.py run twice in a row on one library.              *)
(***************************************************************************)
\* process_authors is called again on the tree the first call left
FlagRerun ==
    /\ prog = "flag"
    /\ pc = "done"
    /\ "run" \notin DOMAIN loc
    /\ pc' = "flag_loop"
    /\ tree0' = tree
    /\ loc' = [todo |-> AuthorDirs(tree), fixed |-> 0, flagged |-> 0, conforming |-> 0,
               run |-> 2]
    /\ out' = [lines |-> << >>]
    /\ UNCHANGED <<prog, tree, inp>>

NextFlagTwice == FlagDir \/ FlagReport \/ FlagRerun

SpecFlagTwice == InitFlag /\ [][NextFlagTwice]_vars

\* C30: a second run of process_authors directly after a first run that was
\* no dry run returns fixed = 0 and flagged = 0 and leaves every directory
\* under its name; a directory with the outlier prefix is not prefixed again.
C30_FlagIdempotent ==
    (FlagDone /\ "run" \in DOMAIN loc /\ ~inp.dry_run) =>
        /\ loc.fixed = 0
        /\ loc.flagged = 0
        /\ tree = tree0

====
